---- MODULE Spec2Model ----
(***************************************************************************)
(* Verification model of apple-music-spotify-sync: the candidate match     *)
(* selector (src/spotify/search.js), the result cache (src/utils/cache.js) *)
(* and the search phase of the sync pipeline (index.js).                   *)
(*                                                                         *)
(* Text is modelled as a sequence of one-character strings, so that        *)
(* toLowerCase, trim and the regular-expression clean-ups are computed     *)
(* character by character.  Scores are exact rationals [n, d].             *)
(***************************************************************************)
EXTENDS Integers, Sequences, FiniteSets, TLC

(***************************************************************************)
(* Bounds of the model                                                     *)
(***************************************************************************)
\* most candidates the search collaborator returns in one response (the
\* request asks for limit: 5)
MaxItems == 2
\* most tracks of the input playlist
MaxTracks == 11
\* most pipeline invocations sharing the cache file
MaxRuns == 2
\* longest playlist that is synced a second time
MaxRerunTracks == 3
\* most tracks of the existing collection a candidate is checked against
MaxExisting == 2
\* longest string the similarity engine is applied to
MaxLen == 3
\* longest batch of several songs handed to filterSongs
MaxSongs == 2

(***************************************************************************)
(* JavaScript values                                                       *)
(***************************************************************************)
\* the value undefined / null of a missing field
Undefined == <<"#undefined">>

Max(a, b) == IF a >= b THEN a ELSE b
Min(a, b) == IF a <= b THEN a ELSE b

\* a || b || c over text fields: the first present non-empty one, else undefined
RECURSIVE FirstTruthy(_, _)
FirstTruthy(rec, fields) ==
  IF fields = <<>> THEN Undefined
  ELSE IF Head(fields) \in DOMAIN rec /\ rec[Head(fields)] # <<>>
            /\ rec[Head(fields)] # Undefined
       THEN rec[Head(fields)]
       ELSE FirstTruthy(rec, Tail(fields))

OrEmpty(v) == IF v = Undefined THEN <<>> ELSE v

\* { ...a, ...b }
Spread(a, b) == [f \in DOMAIN a \cup DOMAIN b |-> IF f \in DOMAIN b THEN b[f] ELSE a[f]]

RECURSIVE Pow2(_)
Pow2(n) == IF n = 0 THEN 1 ELSE 2 * Pow2(n - 1)

RECURSIVE GCD(_, _)
GCD(a, b) == IF b = 0 THEN a ELSE GCD(b, a % b)

\* an exact rational in lowest terms
Rat(n, d) == IF n = 0 THEN [n |-> 0, d |-> 1]
             ELSE [n |-> n \div GCD(n, d), d |-> d \div GCD(n, d)]

RatGt(a, b) == a.n * b.d > b.n * a.d

Zero == Rat(0, 1)
Half == Rat(1, 2)

(***************************************************************************)
(* String primitives                                                       *)
(***************************************************************************)
UpperAlphabet ==
  <<"A", "B", "C", "D", "E", "F", "G", "H", "I", "J", "K", "L", "M",
    "N", "O", "P", "Q", "R", "S", "T", "U", "V", "W", "X", "Y", "Z">>

LowerAlphabet ==
  <<"a", "b", "c", "d", "e", "f", "g", "h", "i", "j", "k", "l", "m",
    "n", "o", "p", "q", "r", "s", "t", "u", "v", "w", "x", "y", "z">>

UpperToLower ==
  [c \in {UpperAlphabet[k] : k \in 1..26} |->
     LowerAlphabet[CHOOSE k \in 1..26 : UpperAlphabet[k] = c]]

LowerLetters == {UpperToLower[c] : c \in DOMAIN UpperToLower}
Digits == {"0", "1", "2", "3", "4", "5", "6", "7", "8", "9"}

\* \w without the underscore: the characters /[\W_]/ leaves alone
IsAlnum(c) == c \in DOMAIN UpperToLower \cup LowerLetters \cup Digits
\* \s
IsSpace(c) == c \in {" ", "\t"}

\* String.prototype.toLowerCase
ToLowerCase(s) ==
  [p \in 1..Len(s) |-> IF s[p] \in DOMAIN UpperToLower THEN UpperToLower[s[p]] ELSE s[p]]

RECURSIVE TrimStart(_)
TrimStart(s) == IF s # <<>> /\ IsSpace(Head(s)) THEN TrimStart(Tail(s)) ELSE s

RECURSIVE TrimEnd(_)
TrimEnd(s) ==
  IF s # <<>> /\ IsSpace(s[Len(s)]) THEN TrimEnd(SubSeq(s, 1, Len(s) - 1)) ELSE s

\* String.prototype.trim
Trim(s) == TrimEnd(TrimStart(s))

\* s.replace(/[\W_]+/g, " "): every maximal run of non-alphanumerics becomes one space
RECURSIVE ReplaceNonWordRuns(_)
ReplaceNonWordRuns(s) ==
  IF s = <<>> THEN <<>>
  ELSE IF IsAlnum(Head(s)) THEN <<Head(s)>> \o ReplaceNonWordRuns(Tail(s))
  ELSE IF Len(s) >= 2 /\ ~IsAlnum(s[2]) THEN ReplaceNonWordRuns(Tail(s))
  ELSE <<" ">> \o ReplaceNonWordRuns(Tail(s))

\* s.replace(/\s+/g, " ")
RECURSIVE CollapseWhitespace(_)
CollapseWhitespace(s) ==
  IF s = <<>> THEN <<>>
  ELSE IF ~IsSpace(Head(s)) THEN <<Head(s)>> \o CollapseWhitespace(Tail(s))
  ELSE IF Len(s) >= 2 /\ IsSpace(s[2]) THEN CollapseWhitespace(Tail(s))
  ELSE <<" ">> \o CollapseWhitespace(Tail(s))

\* s.replace(/\s+/g, "")
RECURSIVE RemoveWhitespace(_)
RemoveWhitespace(s) ==
  IF s = <<>> THEN <<>>
  ELSE IF IsSpace(Head(s)) THEN RemoveWhitespace(Tail(s))
  ELSE <<Head(s)>> \o RemoveWhitespace(Tail(s))

\* search.js normalize(str)
normalize(str) == Trim(CollapseWhitespace(ReplaceNonWordRuns(ToLowerCase(str))))

\* Array.prototype.join(" ")
RECURSIVE JoinSpace(_)
JoinSpace(parts) ==
  IF parts = <<>> THEN <<>>
  ELSE IF Len(parts) = 1 THEN parts[1]
  ELSE parts[1] \o <<" ">> \o JoinSpace(Tail(parts))

(***************************************************************************)
(* string-similarity compareTwoStrings: Dice coefficient over the          *)
(* character bigrams of the two strings with whitespace removed            *)
(***************************************************************************)
RECURSIVE Bigrams(_)
Bigrams(s) == IF Len(s) < 2 THEN <<>> ELSE <<<<s[1], s[2]>>>> \o Bigrams(Tail(s))

RECURSIVE RemoveOne(_, _)
RemoveOne(list, x) ==
  IF list = <<>> THEN <<>>
  ELSE IF Head(list) = x THEN Tail(list)
  ELSE <<Head(list)>> \o RemoveOne(Tail(list), x)

Contains(list, x) == \E p \in 1..Len(list) : list[p] = x

RECURSIVE IntersectionSize(_, _)
IntersectionSize(firstBigrams, secondBigrams) ==
  IF secondBigrams = <<>> THEN 0
  ELSE IF Contains(firstBigrams, Head(secondBigrams))
       THEN 1 + IntersectionSize(RemoveOne(firstBigrams, Head(secondBigrams)),
                                 Tail(secondBigrams))
       ELSE IntersectionSize(firstBigrams, Tail(secondBigrams))

compareTwoStrings(a, b) ==
  LET first == RemoveWhitespace(a)
      second == RemoveWhitespace(b)
  IN IF first = second THEN Rat(1, 1)
     ELSE IF Len(first) < 2 \/ Len(second) < 2 THEN Zero
     ELSE Rat(2 * IntersectionSize(Bigrams(first), Bigrams(second)),
              Len(first) + Len(second) - 2)

(***************************************************************************)
(* Input pools                                                             *)
(***************************************************************************)
Null == [isNull |-> TRUE]
\* the resolved value of a call that has not returned yet
Pending == [pending |-> TRUE]

TypeErrorMessage == "Cannot read properties of null (reading 'name')"
Thrown(msg) == [thrown |-> TRUE, message |-> msg]
IsThrown(v) == "thrown" \in DOMAIN v

\* tracks as the playlist parser emits them: title and artist are non-empty
\* trimmed text, the album may be empty
TrackAbc == [title |-> <<"A", "b", "c">>, artist |-> <<"X", "y">>, album |-> <<>>]
TrackABC == [title |-> <<"A", "B", "C">>, artist |-> <<"X", "y">>, album |-> <<>>]
TrackAbcLp == [title |-> <<"A", "b", "c">>, artist |-> <<"X", "y">>, album |-> <<"L", "p">>]
TrackPunct == [title |-> <<"A", "b", "c", "!">>, artist |-> <<"X", "-", "y">>, album |-> <<>>]
TrackQq == [title |-> <<"Q", "q">>, artist |-> <<"Z", "z">>, album |-> <<"L", "p">>]

SpecialTracks == {TrackAbc, TrackABC, TrackAbcLp, TrackPunct, TrackQq}

\* filler tracks: pairwise distinct titles that resemble no catalog entry
FillerChars == <<"0", "1", "2", "3", "4", "5", "6", "7", "8", "9", "a", "b", "c", "d">>
Filler(k) == [title |-> <<"Z", FillerChars[k]>>, artist |-> <<"P", "p">>, album |-> <<"L", "p">>]
Fillers(from, n) == [k \in 1..n |-> Filler(from + k - 1)]

\* the tracks a single selection is studied on
SelectTracks == {TrackAbc, TrackPunct, TrackQq}

TrackPool == SpecialTracks \cup {Filler(k) : k \in 1..Len(FillerChars)}

\* candidates of the remote catalog
Candidate(name, artistName, album, uri) ==
  [name |-> name, artists |-> <<[name |-> artistName]>>, album |-> album,
   uri |-> uri, id |-> uri]

CandExact == Candidate(<<"A", "b", "c">>, <<"X", "y">>, [name |-> <<"L", "p">>], "uri:exact")
CandNear == Candidate(<<"A", "b", "d">>, <<"X", "y">>, [name |-> <<"L", "p">>], "uri:near")
CandFar == Candidate(<<"A", "b", "d">>, <<"P", "p">>, [name |-> <<"L", "p">>], "uri:far")
CandNone == Candidate(<<"N", "n">>, <<"P", "p">>, [name |-> <<"L", "p">>], "uri:none")
\* an item the collaborator returns without an album object
CandNoAlbum == Candidate(<<"A", "b", "c">>, <<"X", "y">>, Null, "uri:noalbum")

Catalog == {CandExact, CandNear, CandFar, CandNone, CandNoAlbum}

RECURSIVE SeqsUpTo(_, _)
SeqsUpTo(S, n) ==
  IF n = 0 THEN {<<>>}
  ELSE LET shorter == SeqsUpTo(S, n - 1)
       IN shorter \cup {Append(q, x) : q \in {r \in shorter : Len(r) = n - 1}, x \in S}

\* result.body.tracks.items of one response
ItemLists == SeqsUpTo(Catalog, MaxItems)

\* retry-after headers of a 429 response: absent, or decimal text
RetryAfterHeaders == {Undefined, <<"0">>, <<"3">>}

RECURSIVE parseInt(_)
parseInt(text) ==
  IF text = <<>> THEN 0
  ELSE 10 * parseInt(SubSeq(text, 1, Len(text) - 1))
       + (CHOOSE v \in 0..9 : ToString(v) = text[Len(text)])

RateLimitError(header) == [statusCode |-> 429, retryAfter |-> header, message |-> "Too Many Requests"]
ServerError == [statusCode |-> 500, retryAfter |-> Undefined, message |-> "Internal Server Error"]
\* an error without a status code (statusCode 0 stands for the missing field)
NetworkError == [statusCode |-> 0, retryAfter |-> Undefined, message |-> "socket hang up"]

SearchErrors == {RateLimitError(h) : h \in RetryAfterHeaders} \cup {ServerError, NetworkError}

(***************************************************************************)
(* SpotifySearchService (src/spotify/search.js)                            *)
(***************************************************************************)
maxRetries == 3
baseDelay == 1000

StrategyNames ==
  <<"track+artist (exact)", "track+artist (loose)", "track-only", "artist-only">>

kTrack == <<"t", "r", "a", "c", "k", ":">>
kArtist == <<"a", "r", "t", "i", "s", "t", ":">>

\* strategy.getQuery(song)
getQuery(name, s) ==
  CASE name = "track+artist (exact)" ->
         kTrack \o s.searchTitle \o <<" ">> \o kArtist \o s.searchArtist
    [] name = "track+artist (loose)" ->
         kTrack \o normalize(s.searchTitle) \o <<" ">> \o kArtist \o normalize(s.searchArtist)
    [] name = "track-only" -> kTrack \o s.searchTitle
    [] name = "artist-only" -> kArtist \o s.searchArtist

\* the argument main passes to searchTrack for a track
TrackInfo(track) ==
  [title |-> FirstTruthy(track, <<"title", "name", "Name">>),
   artist |-> FirstTruthy(track, <<"artist", "Artist">>),
   album |-> FirstTruthy(track, <<"album", "Album">>)]

\* the song searchTrack hands to searchTrackSmart
MakeSong(trackInfo) ==
  [title |-> trackInfo.title, artist |-> trackInfo.artist, album |-> trackInfo.album,
   searchTitle |-> trackInfo.title, searchArtist |-> trackInfo.artist]

WeightedConfidence_ArtistHeavy(titleScore, artistScore) ==
  Rat(3 * titleScore.n * artistScore.d + 7 * artistScore.n * titleScore.d,
      10 * titleScore.d * artistScore.d)

\* 0.7 * titleScore + 0.3 * artistScore
WeightedConfidence(titleScore, artistScore) ==
  Rat(7 * titleScore.n * artistScore.d + 3 * artistScore.n * titleScore.d,
      10 * titleScore.d * artistScore.d)

CandidateConfidence(s, candidate) ==
  LET candTitle == normalize(candidate.name)
      candArtists == JoinSpace([p \in 1..Len(candidate.artists) |->
                                  normalize(candidate.artists[p].name)])
  IN WeightedConfidence(compareTwoStrings(normalize(s.title), candTitle),
                        compareTwoStrings(normalize(s.artist), candArtists))

\* the confidences of the pooled songs and candidates, computed once
ConfidenceMemo ==
  [s \in {MakeSong(TrackInfo(t)) : t \in TrackPool} |->
     [c \in Catalog |-> CandidateConfidence(s, c)]]

RECURSIVE ScoreFold(_, _, _)
ScoreFold(s, candidates, best) ==
  IF candidates = <<>> THEN best
  ELSE LET confidence == ConfidenceMemo[s][Head(candidates)]
       IN ScoreFold(s, Tail(candidates),
                    IF RatGt(confidence, best.confidence)
                    THEN [match |-> Head(candidates), confidence |-> confidence]
                    ELSE best)

scoreAndSelectBestMatch(s, candidates) ==
  ScoreFold(s, candidates, [match |-> Null, confidence |-> Zero])

\* what searchWithStrategy returns when searchTracks resolves with items
StrategyResult(s, strategyName, items) ==
  IF Len(items) > 0
  THEN LET best == scoreAndSelectBestMatch(s, items)
       IN [song |-> s, match |-> best.match, confidence |-> best.confidence,
           strategy |-> strategyName]
  ELSE Null

IsRateLimit_AnyHttpError(err) == err.statusCode >= 429

\* err.statusCode === 429
IsRateLimit(err) == err.statusCode = 429

LoopContinues_OneMore(n) == n <= maxRetries + 1

\* while (attempt <= this.maxRetries)
LoopContinues(n) == n <= maxRetries

\* Math.max(baseDelay * 2^attempt, retryAfterSec * 1000)
RetryDelay(n, err) ==
  LET retryAfterSec == parseInt(IF err.retryAfter # Undefined /\ err.retryAfter # <<>>
                                THEN err.retryAfter ELSE <<"1">>)
  IN Max(baseDelay * Pow2(n), retryAfterSec * 1000)

Succeeds_AnyMatch(r) == r # Null /\ r.match # Null

\* result && result.match && result.confidence > 0.5
Succeeds(r) == r # Null /\ r.match # Null /\ RatGt(r.confidence, Half)

UnmatchedResult_KeepsConfidence(s) ==
  [song |-> s, match |-> Null, confidence |-> Half, strategy |-> Null]

UnmatchedResult(s) == [song |-> s, match |-> Null, confidence |-> Zero, strategy |-> Null]

\* what searchTrack makes of the result of searchTrackSmart
SearchTrackReturn(r) ==
  IF Succeeds(r)
  THEN IF r.match.album = Null
       THEN Thrown(TypeErrorMessage)
       ELSE [uri |-> r.match.uri, id |-> r.match.id, name |-> r.match.name,
             artists |-> [p \in 1..Len(r.match.artists) |-> r.match.artists[p].name],
             album |-> r.match.album.name, confidence |-> r.confidence]
  ELSE Null

(***************************************************************************)
(* Exact rational arithmetic for similarity scores                         *)
(***************************************************************************)
RatAdd(a, b) == Rat(a.n * b.d + b.n * a.d, a.d * b.d)
RatMul(a, b) == Rat(a.n * b.n, a.d * b.d)
One == Rat(1, 1)

(***************************************************************************)
(* Track comparison (src/utils/track-comparison.js)                        *)
(***************************************************************************)
\* \w
IsWord(c) == IsAlnum(c) \/ c = "_"

\* s.replace(/[^\w\s]/g, " ")
ReplaceSpecialChars(s) ==
  [p \in 1..Len(s) |-> IF IsWord(s[p]) \/ IsSpace(s[p]) THEN s[p] ELSE " "]

\* TrackComparison.cleanText
TC_cleanText(text) ==
  IF text = <<>> \/ text = Undefined THEN <<>>
  ELSE Trim(CollapseWhitespace(ReplaceSpecialChars(ToLowerCase(text))))

\* TrackComparison.normalizeSong (the fields the comparison reads)
TC_normalizeSong(track) ==
  LET title == Trim(ToLowerCase(OrEmpty(FirstTruthy(track, <<"name", "title">>))))
      artist == IF "artists" \in DOMAIN track
                THEN JoinSpace([k \in DOMAIN track.artists |-> OrEmpty(track.artists[k])])
                ELSE OrEmpty(FirstTruthy(track, <<"artist">>))
      album == Trim(ToLowerCase(OrEmpty(FirstTruthy(track, <<"album">>))))
  IN [title |-> title, artist |-> Trim(ToLowerCase(artist)), album |-> album,
      searchTitle |-> TC_cleanText(title), searchArtist |-> TC_cleanText(artist),
      searchAlbum |-> TC_cleanText(album)]

SignatureSeparator == <<"|", "|", "|">>

createTrackSignature_WithAlbum(track) ==
  LET normalized == TC_normalizeSong(track)
  IN normalized.searchTitle \o SignatureSeparator \o normalized.searchArtist
       \o SignatureSeparator \o normalized.searchAlbum

createTrackSignature(track) ==
  LET normalized == TC_normalizeSong(track)
  IN normalized.searchTitle \o SignatureSeparator \o normalized.searchArtist

\* the alternatives of the version pattern, in the order the pattern lists them
VersionWords ==
  <<<<"r", "e", "m", "a", "s", "t", "e", "r">>,
    <<"r", "e", "m", "a", "s", "t", "e", "r", "e", "d">>,
    <<"d", "e", "l", "u", "x", "e">>,
    <<"e", "x", "t", "e", "n", "d", "e", "d">>,
    <<"r", "a", "d", "i", "o", " ", "e", "d", "i", "t">>,
    <<"a", "l", "b", "u", "m", " ", "v", "e", "r", "s", "i", "o", "n">>,
    <<"s", "i", "n", "g", "l", "e", " ", "v", "e", "r", "s", "i", "o", "n">>,
    <<"u", "l", "t", "i", "m", "a", "t", "e", " ", "m", "i", "x">>>>

\* word w matches s at its start and a word boundary follows
MatchesWordAtStart(s, w) ==
  /\ Len(s) >= Len(w)
  /\ SubSeq(s, 1, Len(w)) = w
  /\ (Len(s) = Len(w) \/ ~IsWord(s[Len(w) + 1]))

\* s.replace(/\b(remaster|...|ultimate mix)\b/gi, ""), scanning s left to
\* right; afterWord: the character before s is a word character
RECURSIVE StripVersionWords(_, _)
StripVersionWords(s, afterWord) ==
  IF s = <<>> THEN <<>>
  ELSE IF ~afterWord /\ \E k \in 1..Len(VersionWords) : MatchesWordAtStart(s, VersionWords[k])
  THEN LET k == CHOOSE k \in 1..Len(VersionWords) :
                  /\ MatchesWordAtStart(s, VersionWords[k])
                  /\ \A q \in 1..(k - 1) : ~MatchesWordAtStart(s, VersionWords[q])
       IN StripVersionWords(SubSeq(s, Len(VersionWords[k]) + 1, Len(s)), TRUE)
  ELSE <<Head(s)>> \o StripVersionWords(Tail(s), IsWord(Head(s)))

createCoreTrackSignature(track) ==
  LET normalized == TC_normalizeSong(track)
      coreTitle == Trim(CollapseWhitespace(StripVersionWords(normalized.searchTitle, FALSE)))
  IN coreTitle \o SignatureSeparator \o normalized.searchArtist

\* one row of the matrix of levenshteinDistance: above is matrix[i - 1], c is
\* str2.charAt(i - 1) and row is the part of matrix[i] computed so far
\* (row[j + 1] is matrix[i][j])
RECURSIVE LevenshteinRow(_, _, _, _)
LevenshteinRow(above, c, str1, row) ==
  IF Len(row) > Len(str1) THEN row
  ELSE LevenshteinRow(above, c, str1,
         Append(row, IF c = str1[Len(row)] THEN above[Len(row)]
                     ELSE Min(above[Len(row)] + 1,
                              Min(row[Len(row)] + 1, above[Len(row) + 1] + 1))))

\* the rows matrix[0] .. matrix[i], each complete before the next is begun
RECURSIVE LevenshteinRows(_, _, _)
LevenshteinRows(str1, str2, i) ==
  IF i = 0 THEN <<[j \in 1..(Len(str1) + 1) |-> j - 1]>>
  ELSE LET rows == LevenshteinRows(str1, str2, i - 1)
       IN Append(rows, LevenshteinRow(rows[i], str2[i], str1, <<i>>))

levenshteinDistance(str1, str2) ==
  IF str1 = <<>> \/ str2 = <<>> THEN Max(Len(str1), Len(str2))
  ELSE LevenshteinRows(str1, str2, Len(str2))[Len(str2) + 1][Len(str1) + 1]

\* new Set(str.split(/\s+/).filter(t => t.length > 0))
RECURSIVE Tokens(_, _)
Tokens(s, token) ==
  IF s = <<>> THEN (IF token = <<>> THEN {} ELSE {token})
  ELSE IF IsSpace(Head(s))
  THEN (IF token = <<>> THEN {} ELSE {token}) \cup Tokens(Tail(s), <<>>)
  ELSE Tokens(Tail(s), Append(token, Head(s)))

calculateStringSimilarity_RelativeToFirst(str1, str2) ==
  IF str1 = <<>> /\ str2 = <<>> THEN One
  ELSE IF str1 = <<>> \/ str2 = <<>> THEN Zero
  ELSE IF str1 = str2 THEN One
  ELSE LET editDistance == levenshteinDistance(str1, str2)
           levenshteinSimilarity == Rat(Max(Len(str1) - editDistance, 0), Len(str1))
           tokens1 == Tokens(str1, <<>>)
           tokens2 == Tokens(str2, <<>>)
           jaccardSimilarity ==
             IF Cardinality(tokens1 \cup tokens2) > 0
             THEN Rat(Cardinality(tokens1 \cap tokens2), Cardinality(tokens1 \cup tokens2))
             ELSE Zero
       IN RatAdd(RatMul(levenshteinSimilarity, Rat(6, 10)), RatMul(jaccardSimilarity, Rat(4, 10)))

calculateStringSimilarity(str1, str2) ==
  IF str1 = <<>> /\ str2 = <<>> THEN One
  ELSE IF str1 = <<>> \/ str2 = <<>> THEN Zero
  ELSE IF str1 = str2 THEN One
  ELSE LET longer == IF Len(str1) > Len(str2) THEN str1 ELSE str2
           shorter == IF Len(str1) > Len(str2) THEN str2 ELSE str1
           editDistance == levenshteinDistance(longer, shorter)
           levenshteinSimilarity == Rat(Len(longer) - editDistance, Len(longer))
           tokens1 == Tokens(str1, <<>>)
           tokens2 == Tokens(str2, <<>>)
           jaccardSimilarity ==
             IF Cardinality(tokens1 \cup tokens2) > 0
             THEN Rat(Cardinality(tokens1 \cap tokens2), Cardinality(tokens1 \cup tokens2))
             ELSE Zero
       IN RatAdd(RatMul(levenshteinSimilarity, Rat(6, 10)), RatMul(jaccardSimilarity, Rat(4, 10)))

\* the weighted record calculateTrackSimilarity returns (title 60%, artist
\* 35%, album 5%)
WeightedSimilarity(titleSimilarity, artistSimilarity, albumSimilarity) ==
  [overall |-> RatAdd(RatAdd(RatMul(titleSimilarity, Rat(60, 100)),
                             RatMul(artistSimilarity, Rat(35, 100))),
                      RatMul(albumSimilarity, Rat(5, 100))),
   title |-> titleSimilarity, artist |-> artistSimilarity, album |-> albumSimilarity]

\* calculateTrackSimilarity from the two normalized records on
NormalizedSimilarity(norm1, norm2) ==
  WeightedSimilarity(
    calculateStringSimilarity(norm1.searchTitle, norm2.searchTitle),
    calculateStringSimilarity(norm1.searchArtist, norm2.searchArtist),
    IF norm1.searchAlbum # <<>> /\ norm2.searchAlbum # <<>>
    THEN calculateStringSimilarity(norm1.searchAlbum, norm2.searchAlbum)
    ELSE Zero)

calculateTrackSimilarity(track1, track2) ==
  NormalizedSimilarity(TC_normalizeSong(track1), TC_normalizeSong(track2))

(***************************************************************************)
(* State of one searchTrack call, stepped from await to await              *)
(***************************************************************************)
VARIABLES
  selPc,        \* "idle", "awaitSearch", "awaitDelay", "returned", "threw"
  song,         \* the song searchTrackSmart works on
  strategyIdx,  \* position of the for loop over strategies
  attempt,      \* searchWithStrategy: attempt
  lastError,    \* searchWithStrategy: lastError
  delay,        \* milliseconds of the last back-off sleep
  calls,        \* log of the spotifyApi.searchTracks calls issued so far
  lastResponse, \* the last settled search call and what it settled with
  result,       \* return value of searchTrackSmart
  ret           \* return value (or exception) of searchTrack

selVars == <<selPc, song, strategyIdx, attempt, lastError, delay, calls, lastResponse, result, ret>>

(***************************************************************************)
(* State of the sync pipeline (index.js main) and of the cache file        *)
(***************************************************************************)
VARIABLES
  runPc,            \* "idle", "start", "searching", "batchDelay", "save", "done", "crashed"
  run,              \* number of the current invocation; doubles as the clock
  tracks,           \* the parsed playlist
  fileStore,        \* .cache/search-cache.json: [exists, text]
  loaded,           \* the mapping loadSearchCache returned to this invocation
  searchCache,      \* the in-memory cache object
  tracksToSearch,
  cachedResults,
  i,                \* loop variable of the batch loop
  batchPromises,    \* the promises of the current batch: Pending or the result
  newSearchResults,
  allTrackResults,
  searchLog,        \* the searchTrack calls of this invocation: [index, trackInfo]
  searchResults,    \* what each settled searchTrack call returned or threw, by index
  playlistTracks,   \* main: existingTracks, the tracks already in the Spotify playlist
  newTracksToAdd,
  newTrackUris,
  everCached        \* history of the cache file: [key, run], the invocation in which the
                    \* file first held an entry under the key

runVars == <<runPc, run, tracks, fileStore, loaded, searchCache, tracksToSearch,
             cachedResults, i, batchPromises, newSearchResults, allTrackResults, searchLog,
             searchResults, playlistTracks, newTracksToAdd, newTrackUris, everCached>>

(***************************************************************************)
(* State of one isTrackAlreadyInPlaylist call                              *)
(***************************************************************************)
VARIABLES
  dupPc,         \* "idle", "returned"
  dupCall,       \* the arguments: [newTrack, existingTracks]
  dupVerdict,    \* the value returned
  dupConsulted   \* how many existing tracks the for loop reached

dupVars == <<dupPc, dupCall, dupVerdict, dupConsulted>>

(***************************************************************************)
(* State of one calculateStringSimilarity call                             *)
(***************************************************************************)
VARIABLES
  simPc,      \* "idle", "returned"
  simCall,    \* the arguments: [str1, str2]
  simResult   \* the value returned

simVars == <<simPc, simCall, simResult>>

(***************************************************************************)
(* State of one SongNormalizer instance                                    *)
(***************************************************************************)
VARIABLES
  lastIndex,  \* lastIndex of each of this.invalidPatterns
  scored      \* the record returned last: [normalized, quality, fallback]

normVars == <<lastIndex, scored>>

(***************************************************************************)
(* State of one SongValidator.filterSongs call                             *)
(***************************************************************************)
VARIABLES
  filterPc,      \* "idle", "returned"
  filterCall,    \* the arguments: [songs, options]
  filterResults  \* the value returned

filterVars == <<filterPc, filterCall, filterResults>>

(***************************************************************************)
(* State of one call of src/spotify/playlist.js: fetchAllUserPlaylists,    *)
(* fetchAllPlaylistTrackUris or addTracksToPlaylist                        *)
(***************************************************************************)
VARIABLES
  listPc,        \* "idle", "requesting", "awaiting", "adding", "returned", "threw"
  listCall,      \* the call: [fn, trackUris]
  fetched,       \* playlists / trackUris: the items collected by the paging loop
  offset,        \* offset of the paging loop
  total,         \* total of the paging loop
  existingUris,  \* addTracksToPlaylist: the URIs fetched from the playlist
  urisToAdd,     \* addTracksToPlaylist: the URIs left after the filter
  addIndex,      \* addTracksToPlaylist: i of the batch loop
  addedCount,    \* addTracksToPlaylist: addedCount
  sent,          \* the addTracksToPlaylist requests made: [batch, outcome]
  listReturn     \* the value returned or the error thrown

listVars == <<listPc, listCall, fetched, offset, total, existingUris, urisToAdd,
              addIndex, addedCount, sent, listReturn>>

(***************************************************************************)
(* One SongNormalizer.normalizeSong call of the instance                   *)
(***************************************************************************)
VARIABLES
  normalizeCall,   \* the raw song
  normalizeReturn  \* the record returned

songVars == <<normalizeCall, normalizeReturn>>

vars == <<selVars, runVars, dupVars, simVars, normVars, filterVars, listVars, songVars>>

\* what the steps of one component leave alone
exceptSel == <<runVars, dupVars, simVars, normVars, filterVars, listVars, songVars>>
exceptRun == <<selVars, dupVars, simVars, normVars, filterVars, listVars, songVars>>
exceptDup == <<selVars, runVars, simVars, normVars, filterVars, listVars, songVars>>
exceptSim == <<selVars, runVars, dupVars, normVars, filterVars, listVars, songVars>>
exceptNorm == <<selVars, runVars, dupVars, simVars, filterVars, listVars, songVars>>
exceptFilter == <<selVars, runVars, dupVars, simVars, normVars, listVars, songVars>>
exceptNormalize == <<selVars, runVars, dupVars, simVars, filterVars, listVars>>
exceptList == <<selVars, runVars, dupVars, simVars, normVars, filterVars, songVars>>

SelIdle ==
  /\ selPc = "idle" /\ song = Null /\ strategyIdx = 0 /\ attempt = 0
  /\ lastError = Null /\ delay = 0 /\ calls = <<>> /\ lastResponse = Null
  /\ result = Pending /\ ret = Pending

\* the searchTracks call of one loop iteration of searchWithStrategy
SearchCall(k, n, s) ==
  [strategy |-> StrategyNames[k], attempt |-> n, query |-> getQuery(StrategyNames[k], s),
   limit |-> 5]

\* searchTrackSmart receives r from searchWithStrategy for strategy k: it
\* returns r when it succeeds, else enters the next strategy (whose first
\* search call is issued at once) or returns the unmatched result
StrategyReturned(r) ==
  /\ IF Succeeds(r)
     THEN /\ result' = r
          /\ ret' = SearchTrackReturn(r)
          /\ selPc' = IF IsThrown(SearchTrackReturn(r)) THEN "threw" ELSE "returned"
          /\ UNCHANGED <<strategyIdx, calls>>
     ELSE IF strategyIdx < Len(StrategyNames)
     THEN /\ strategyIdx' = strategyIdx + 1
          /\ calls' = Append(calls, SearchCall(strategyIdx + 1, 0, song))
          /\ selPc' = "awaitSearch"
          /\ UNCHANGED <<result, ret>>
     ELSE /\ result' = UnmatchedResult(song)
          /\ ret' = SearchTrackReturn(UnmatchedResult(song))
          /\ selPc' = "returned"
          /\ UNCHANGED <<strategyIdx, calls>>

\* searchTrack(spotifyApi, trackInfo) up to its first await
SearchTrack(trackInfo) ==
  /\ selPc = "idle"
  /\ song' = MakeSong(trackInfo)
  /\ strategyIdx' = 1
  /\ attempt' = 0
  /\ lastError' = Null
  /\ calls' = <<SearchCall(1, 0, MakeSong(trackInfo))>>
  /\ selPc' = "awaitSearch"
  /\ UNCHANGED <<delay, lastResponse, result, ret>>
  /\ UNCHANGED exceptSel

\* the search call resolves with a list of items
SearchResolved(items) ==
  /\ selPc = "awaitSearch"
  /\ lastResponse' = [call |-> calls[Len(calls)], items |-> items]
  /\ attempt' = 0
  /\ lastError' = Null
  /\ StrategyReturned(StrategyResult(song, StrategyNames[strategyIdx], items))
  /\ UNCHANGED <<song, delay>>
  /\ UNCHANGED exceptSel

\* the search call rejects with a rate-limit error: sleep, then retry
SearchRateLimited(err) ==
  /\ selPc = "awaitSearch"
  /\ IsRateLimit(err)
  /\ lastResponse' = [call |-> calls[Len(calls)], error |-> err]
  /\ lastError' = err
  /\ delay' = RetryDelay(attempt, err)
  /\ selPc' = "awaitDelay"
  /\ UNCHANGED <<song, strategyIdx, attempt, calls, result, ret>>
  /\ UNCHANGED exceptSel

\* the back-off sleep is over: attempt++, continue
DelayElapsed ==
  /\ selPc = "awaitDelay"
  /\ IF LoopContinues(attempt + 1)
     THEN /\ attempt' = attempt + 1
          /\ calls' = Append(calls, SearchCall(strategyIdx, attempt + 1, song))
          /\ selPc' = "awaitSearch"
          /\ UNCHANGED <<lastError, result, ret, strategyIdx>>
     ELSE /\ attempt' = 0
          /\ lastError' = Null
          /\ StrategyReturned(Null)
  /\ delay' = 0
  /\ UNCHANGED <<song, lastResponse>>
  /\ UNCHANGED exceptSel

\* the search call rejects with any other error: break
SearchFailed(err) ==
  /\ selPc = "awaitSearch"
  /\ ~IsRateLimit(err)
  /\ lastResponse' = [call |-> calls[Len(calls)], error |-> err]
  /\ attempt' = 0
  /\ lastError' = Null
  /\ StrategyReturned(Null)
  /\ UNCHANGED <<song, delay>>
  /\ UNCHANGED exceptSel

(***************************************************************************)
(* Every value searchTrack can produce for one track, over all behaviours  *)
(* of the search collaborator (the call touches no shared state, so the    *)
(* pipeline model takes it in one step)                                    *)
(***************************************************************************)
\* what searchWithStrategy can return for strategy k: a scored result for
\* some non-empty response, or null (empty response, error, retries used up)
StrategyReturns(s, k) ==
  {StrategyResult(s, StrategyNames[k], items) : items \in ItemLists} \cup {Null}

RECURSIVE SmartReturns(_, _)
SmartReturns(s, k) ==
  IF k > Len(StrategyNames) THEN {UnmatchedResult(s)}
  ELSE {r \in StrategyReturns(s, k) : Succeeds(r)}
       \cup (IF \E r \in StrategyReturns(s, k) : ~Succeeds(r)
             THEN SmartReturns(s, k + 1) ELSE {})

SearchTrackOutcomes(trackInfo) ==
  {SearchTrackReturn(r) : r \in SmartReturns(MakeSong(trackInfo), 1)}

(***************************************************************************)
(* Result cache (src/utils/cache.js)                                       *)
(***************************************************************************)
\* crypto md5 hex digest, taken to be collision-free
md5(text) == <<"md5", text>>

generateTrackKey_CaseSensitive(track) ==
  md5(Trim(OrEmpty(FirstTruthy(track, <<"title", "name", "Name">>))) \o <<"|">>
      \o Trim(OrEmpty(FirstTruthy(track, <<"artist", "Artist">>))) \o <<"|">>
      \o Trim(OrEmpty(FirstTruthy(track, <<"album", "Album">>))))

generateTrackKey(track) ==
  LET normalizedTitle == Trim(ToLowerCase(OrEmpty(FirstTruthy(track, <<"title", "name", "Name">>))))
      normalizedArtist == Trim(ToLowerCase(OrEmpty(FirstTruthy(track, <<"artist", "Artist">>))))
      normalizedAlbum == Trim(ToLowerCase(OrEmpty(FirstTruthy(track, <<"album", "Album">>))))
  IN md5(normalizedTitle \o <<"|">> \o normalizedArtist \o <<"|">> \o normalizedAlbum)

EmptyCache == <<>>

RECURSIVE KeysInOrder(_)
KeysInOrder(keys) ==
  IF keys = {} THEN <<>>
  ELSE LET k == CHOOSE x \in keys : TRUE IN <<k>> \o KeysInOrder(keys \ {k})

\* JSON.stringify(cache, null, 2) as a sequence of tokens
JSONstringify(cache) ==
  LET ks == KeysInOrder(DOMAIN cache)
  IN <<[t |-> "{"]>>
     \o [n \in 1..Len(ks) |-> [t |-> "member", key |-> ks[n], value |-> cache[ks[n]]]]
     \o <<[t |-> "}"]>>

\* JSON.parse accepts exactly the complete texts
JSONparses(text) ==
  /\ Len(text) >= 2
  /\ text[1] = [t |-> "{"]
  /\ text[Len(text)] = [t |-> "}"]
  /\ \A n \in 2..(Len(text) - 1) : text[n].t = "member"

JSONparse(text) ==
  LET members == {text[n] : n \in 2..(Len(text) - 1)}
  IN [k \in {m.key : m \in members} |-> (CHOOSE m \in members : m.key = k).value]

loadSearchCache(file) ==
  IF file.exists /\ JSONparses(file.text) THEN JSONparse(file.text) ELSE EmptyCache

\* the file saveSearchCache leaves when writeFile has written n tokens
WrittenFile(cache, n) == [exists |-> TRUE, text |-> SubSeq(JSONstringify(cache), 1, n)]

NoFile == [exists |-> FALSE, text |-> <<>>]

(***************************************************************************)
(* Sync pipeline, steps 7 to 9 of main (index.js)                          *)
(***************************************************************************)
batchSize == 10

CacheHit_MatchedOnly(cache, trackKey) == trackKey \in DOMAIN cache /\ cache[trackKey].matched

\* if (searchCache[trackKey])
CacheHit(cache, trackKey) == trackKey \in DOMAIN cache

\* the forEach of step 7: the tracks to search, each with its _cacheKey
RECURSIVE TracksToSearchOf(_, _)
TracksToSearchOf(ts, cache) ==
  IF ts = <<>> THEN <<>>
  ELSE LET trackKey == generateTrackKey(Head(ts))
       IN (IF CacheHit(cache, trackKey) THEN <<>>
           ELSE <<Spread(Head(ts), [cacheKey |-> trackKey])>>)
          \o TracksToSearchOf(Tail(ts), cache)

\* the forEach of step 7: the results taken from the cache
RECURSIVE CachedResultsOf(_, _)
CachedResultsOf(ts, cache) ==
  IF ts = <<>> THEN <<>>
  ELSE LET trackKey == generateTrackKey(Head(ts))
       IN (IF CacheHit(cache, trackKey)
           THEN <<Spread(Spread(Head(ts), cache[trackKey]), [fromCache |-> TRUE])>>
           ELSE <<>>)
          \o CachedResultsOf(Tail(ts), cache)

BatchSlice_OneMore(list, from) == SubSeq(list, from + 1, Min(from + batchSize + 1, Len(list)))

\* tracksToSearch.slice(i, i + batchSize)
BatchSlice(list, from) == SubSeq(list, from + 1, Min(from + batchSize, Len(list)))

ResultFor_ThrowLosesTrack(track, searchResult) ==
  IF IsThrown(searchResult) THEN [matched |-> FALSE]
  ELSE IF searchResult # Null
  THEN Spread(track, [spotifyUri |-> searchResult.uri,
                      spotifyTrackInfo |-> [name |-> searchResult.name,
                                            artists |-> searchResult.artists,
                                            album |-> searchResult.album],
                      matched |-> TRUE,
                      confidence |-> searchResult.confidence])
  ELSE Spread(track, [matched |-> FALSE])

\* the result the callback of batch.map returns for what searchTrack gave
ResultFor(track, searchResult) ==
  IF IsThrown(searchResult) THEN Spread(track, [matched |-> FALSE])
  ELSE IF searchResult # Null
  THEN Spread(track, [spotifyUri |-> searchResult.uri,
                      spotifyTrackInfo |-> [name |-> searchResult.name,
                                            artists |-> searchResult.artists,
                                            album |-> searchResult.album],
                      matched |-> TRUE,
                      confidence |-> searchResult.confidence])
  ELSE Spread(track, [matched |-> FALSE])

EntryFor_NoErrorMessage(searchResult, now) ==
  IF IsThrown(searchResult) \/ searchResult = Null
  THEN [matched |-> FALSE, cachedAt |-> now]
  ELSE [spotifyUri |-> searchResult.uri,
        spotifyTrackInfo |-> [name |-> searchResult.name,
                              artists |-> searchResult.artists,
                              album |-> searchResult.album],
        matched |-> TRUE,
        confidence |-> searchResult.confidence,
        cachedAt |-> now]

\* the entry the callback stores under track._cacheKey (only the fields
\* that are defined, which is what reaches the file)
EntryFor(searchResult, now) ==
  IF IsThrown(searchResult)
  THEN [matched |-> FALSE, cachedAt |-> now, error |-> searchResult.message]
  ELSE IF searchResult # Null
  THEN [spotifyUri |-> searchResult.uri,
        spotifyTrackInfo |-> [name |-> searchResult.name,
                              artists |-> searchResult.artists,
                              album |-> searchResult.album],
        matched |-> TRUE,
        confidence |-> searchResult.confidence,
        cachedAt |-> now]
  ELSE [matched |-> FALSE, cachedAt |-> now]

\* the outcomes of the pooled tracks, computed once
OutcomesMemo == [t \in {TrackInfo(x) : x \in TrackPool} |-> SearchTrackOutcomes(t)]

(***************************************************************************)
(* Duplicate detector: TrackComparison.isTrackAlreadyInPlaylist            *)
(***************************************************************************)
NotDuplicate ==
  [isDuplicate |-> FALSE, method |-> Null, confidence |-> Zero, existingTrack |-> Null]

\* the similarity tiers of the loop body; otherwise: the verdict when
\* neither applies
SimilarityVerdict(similarity, existingTrack, otherwise) ==
  IF RatGt(similarity.overall, Rat(90, 100))
  THEN [isDuplicate |-> TRUE, method |-> "high_similarity",
        confidence |-> similarity.overall, existingTrack |-> existingTrack]
  ELSE IF RatGt(similarity.overall, Rat(75, 100)) /\ RatGt(similarity.artist, Rat(95, 100))
  THEN [isDuplicate |-> TRUE, method |-> "medium_similarity_exact_artist",
        confidence |-> similarity.overall, existingTrack |-> existingTrack]
  ELSE otherwise

\* the signature tiers of the loop body; otherwise: the verdict when
\* neither applies
SignatureVerdict(newSignature, existingSignature, newCoreSignature, existingCoreSignature, existingTrack, otherwise) ==
  IF newSignature = existingSignature /\ Len(newSignature) > 6
  THEN [isDuplicate |-> TRUE, method |-> "exact_signature", confidence |-> One,
        existingTrack |-> existingTrack]
  ELSE IF newCoreSignature = existingCoreSignature /\ Len(newCoreSignature) > 6
  THEN [isDuplicate |-> TRUE, method |-> "core_signature", confidence |-> Rat(95, 100),
        existingTrack |-> existingTrack]
  ELSE otherwise

TierVerdict_SimilarityFirst(newTrack, existingTrack) ==
  SimilarityVerdict(calculateTrackSimilarity(newTrack, existingTrack), existingTrack,
    SignatureVerdict(createTrackSignature(newTrack), createTrackSignature(existingTrack),
                     createCoreTrackSignature(newTrack),
                     createCoreTrackSignature(existingTrack), existingTrack, NotDuplicate))

\* the body of the for loop for one existing track: the verdict it returns,
\* or NotDuplicate when the loop goes on
TierVerdict(newTrack, existingTrack) ==
  SignatureVerdict(createTrackSignature(newTrack), createTrackSignature(existingTrack),
                   createCoreTrackSignature(newTrack),
                   createCoreTrackSignature(existingTrack), existingTrack,
    SimilarityVerdict(calculateTrackSimilarity(newTrack, existingTrack), existingTrack,
                      NotDuplicate))

\* the for loop from its k-th iteration on
RECURSIVE ScanExisting(_, _, _)
ScanExisting(newTrack, existingTracks, k) ==
  IF k > Len(existingTracks) THEN [verdict |-> NotDuplicate, consulted |-> k - 1]
  ELSE IF existingTracks[k] = Null THEN ScanExisting(newTrack, existingTracks, k + 1)
  ELSE LET v == TierVerdict(newTrack, existingTracks[k])
       IN IF v.isDuplicate THEN [verdict |-> v, consulted |-> k]
          ELSE ScanExisting(newTrack, existingTracks, k + 1)

\* a JavaScript array as an argument that may also be null
ArrayOf(elements) == [array |-> elements]

isTrackAlreadyInPlaylist(newTrack, existingTracks) ==
  IF newTrack = Null \/ existingTracks = Null
  THEN [verdict |-> NotDuplicate, consulted |-> 0]
  ELSE ScanExisting(newTrack, existingTracks.array, 1)

\* step 10: the record handed to the duplicate detector
TrackForComparison(t) ==
  LET hasInfo == "spotifyTrackInfo" \in DOMAIN t
  IN [name |-> IF hasInfo /\ t.spotifyTrackInfo.name # <<>>
               THEN t.spotifyTrackInfo.name
               ELSE FirstTruthy(t, <<"title", "name", "Name">>),
      artists |-> IF hasInfo THEN t.spotifyTrackInfo.artists
                  ELSE <<FirstTruthy(t, <<"artist", "Artist">>)>>,
      album |-> IF hasInfo /\ t.spotifyTrackInfo.album # <<>>
                THEN t.spotifyTrackInfo.album
                ELSE FirstTruthy(t, <<"album", "Album">>)]

\* the Spotify playlist before the sync: empty, or holding the catalog's
\* exact entry
PlaylistAbc == [name |-> <<"A", "b", "c">>, artists |-> <<<<"X", "y">>>>,
                album |-> <<"L", "p">>, uri |-> "uri:exact"]
ExistingPlaylists == {SubSeq(<<PlaylistAbc>>, 1, n) : n \in 0..1}

\* the records step 10 builds from the matches of the catalog
CatalogComparisons ==
  {[name |-> c.name, artists |-> [p \in 1..Len(c.artists) |-> c.artists[p].name],
    album |-> c.album.name] : c \in {x \in Catalog : x.album # Null}}

\* duplicateResult.isDuplicate for these records and playlists, computed once
DuplicateMemo ==
  [c \in CatalogComparisons |->
     [e \in ExistingPlaylists |->
        isTrackAlreadyInPlaylist(c, ArrayOf(e)).verdict.isDuplicate]]

\* step 10: the matched results that are not already in the playlist
RECURSIVE NewTracksToAddOf(_, _)
NewTracksToAddOf(results, existingTracks) ==
  IF results = <<>> THEN <<>>
  ELSE (IF /\ Head(results).matched
           /\ ~DuplicateMemo[TrackForComparison(Head(results))][existingTracks]
        THEN <<Head(results)>> ELSE <<>>)
       \o NewTracksToAddOf(Tail(results), existingTracks)

\* newTracksToAdd.map(track => track.spotifyUri)
UrisOf(results) == [k \in DOMAIN results |-> results[k].spotifyUri]

\* the playlists of the model: prefixes of three master lists
MasterLists ==
  {<<TrackAbc, TrackABC>> \o Fillers(1, 12),
   Fillers(1, 9) \o <<TrackAbcLp, TrackAbc, TrackABC>> \o Fillers(10, 2),
   <<Filler(1), TrackAbc, TrackAbcLp>> \o Fillers(2, 11)}

Playlists == {SubSeq(m, 1, n) : m \in MasterLists, n \in 0..MaxTracks}

\* the cache file before the first modelled invocation: absent, or left by
\* an earlier invocation that searched TrackAbc
InitialFiles ==
  {NoFile}
  \cup {WrittenFile(c, Len(JSONstringify(c))) :
          c \in {(generateTrackKey(TrackAbc) :> EntryFor(o, 0)) :
                   o \in {SearchTrackReturn(StrategyResult(MakeSong(TrackInfo(TrackAbc)),
                                                           StrategyNames[1], <<CandExact>>)),
                          Thrown(TypeErrorMessage)}}}

\* the history of the cache file after the file became file in invocation r
Remember(history, file, r) ==
  history \cup {[key |-> k, run |-> r] :
                 k \in {h \in DOMAIN loadSearchCache(file) : \A e \in history : e.key # h}}

RunIdle ==
  /\ runPc = "idle" /\ run = 0 /\ tracks = <<>> /\ fileStore = NoFile
  /\ loaded = EmptyCache /\ searchCache = EmptyCache /\ tracksToSearch = <<>>
  /\ cachedResults = <<>> /\ i = 0 /\ batchPromises = <<>>
  /\ newSearchResults = <<>> /\ allTrackResults = <<>> /\ searchLog = {}
  /\ searchResults = <<>>
  /\ playlistTracks = <<>> /\ newTracksToAdd = <<>> /\ newTrackUris = <<>>
  /\ everCached = {}

\* batch.map(async (track) => ...): every callback runs up to its first
\* await, the first search call of its searchTrack
StartBatch(list, from) ==
  /\ i' = from
  /\ batchPromises' = [n \in 1..Len(BatchSlice(list, from)) |-> Pending]
  /\ searchLog' = searchLog \cup
                  {[index |-> from + n, trackInfo |-> TrackInfo(BatchSlice(list, from)[n])] :
                     n \in 1..Len(BatchSlice(list, from))}
  /\ runPc' = "searching"

\* step 9
\* steps 9 and 10, which follow without an await
Combine ==
  /\ allTrackResults' = cachedResults \o newSearchResults'
  /\ LET toAdd == NewTracksToAddOf(cachedResults \o newSearchResults', playlistTracks)
     IN newTracksToAdd' = toAdd /\ newTrackUris' = UrisOf(toAdd)
  /\ runPc' = "done"

\* step 7, and step 8 up to the first Promise.all
LoadSearchCache ==
  /\ runPc = "start"
  /\ LET cache == loadSearchCache(fileStore)
         toSearch == TracksToSearchOf(tracks, cache)
     IN /\ loaded' = cache
        /\ searchCache' = cache
        /\ tracksToSearch' = toSearch
        /\ cachedResults' = CachedResultsOf(tracks, cache)
        /\ newSearchResults' = <<>>
        /\ IF Len(toSearch) > 0
           THEN /\ StartBatch(toSearch, 0)
                /\ UNCHANGED <<allTrackResults, newTracksToAdd, newTrackUris>>
           ELSE /\ allTrackResults' = CachedResultsOf(tracks, cache)
                /\ LET toAdd == NewTracksToAddOf(CachedResultsOf(tracks, cache),
                                                  playlistTracks)
                   IN newTracksToAdd' = toAdd /\ newTrackUris' = UrisOf(toAdd)
                /\ runPc' = "done"
                /\ UNCHANGED <<i, batchPromises, searchLog>>
  /\ UNCHANGED <<run, tracks, fileStore, everCached, searchResults, playlistTracks>>
  /\ UNCHANGED exceptRun

\* the searchTrack call of the n-th track of the batch settles: the rest
\* of the callback stores the cache entry and fulfils the promise
SearchSettled(n) ==
  /\ runPc = "searching"
  /\ n \in 1..Len(batchPromises)
  /\ batchPromises[n] = Pending
  /\ LET track == tracksToSearch[i + n]
     IN \E searchResult \in OutcomesMemo[TrackInfo(track)] :
          /\ searchCache' = (track.cacheKey :> EntryFor(searchResult, run)) @@ searchCache
          /\ batchPromises' = [batchPromises EXCEPT ![n] = ResultFor(track, searchResult)]
          /\ searchResults' = ((i + n) :> searchResult) @@ searchResults
  /\ UNCHANGED <<runPc, run, tracks, fileStore, everCached, loaded, tracksToSearch, cachedResults, i,
                 newSearchResults, allTrackResults, searchLog, playlistTracks,
                 newTracksToAdd, newTrackUris>>
  /\ UNCHANGED exceptRun

\* Promise.all(batchPromises) resolves
BatchSettled ==
  /\ runPc = "searching"
  /\ \A n \in 1..Len(batchPromises) : batchPromises[n] # Pending
  /\ newSearchResults' = newSearchResults \o batchPromises
  /\ batchPromises' = <<>>
  /\ runPc' = IF i + batchSize < Len(tracksToSearch) THEN "batchDelay" ELSE "save"
  /\ UNCHANGED <<run, tracks, fileStore, everCached, loaded, searchCache, tracksToSearch, cachedResults,
                 i, allTrackResults, searchLog, searchResults, playlistTracks,
                 newTracksToAdd, newTrackUris>>
  /\ UNCHANGED exceptRun

\* the 100 ms pause is over: the next batch starts
BatchDelayElapsed ==
  /\ runPc = "batchDelay"
  /\ StartBatch(tracksToSearch, i + batchSize)
  /\ UNCHANGED <<run, tracks, fileStore, everCached, loaded, searchCache, tracksToSearch, cachedResults,
                 newSearchResults, allTrackResults, searchResults, playlistTracks,
                 newTracksToAdd, newTrackUris>>
  /\ UNCHANGED exceptRun

\* saveSearchCache: writeFile completes
SaveSearchCache ==
  /\ runPc = "save"
  /\ fileStore' = WrittenFile(searchCache, Len(JSONstringify(searchCache)))
  /\ everCached' = Remember(everCached, fileStore', run)
  /\ UNCHANGED newSearchResults
  /\ Combine
  /\ UNCHANGED <<run, tracks, loaded, searchCache, tracksToSearch, cachedResults, i,
                 batchPromises, searchLog, searchResults, playlistTracks>>
  /\ UNCHANGED exceptRun

\* saveSearchCache: mkdir or writeFile rejects (touched = FALSE: before the
\* file was opened; else after n tokens were written); the error is logged
SaveSearchCacheFails(touched, n) ==
  /\ runPc = "save"
  /\ n < Len(JSONstringify(searchCache))
  /\ fileStore' = IF touched THEN WrittenFile(searchCache, n) ELSE fileStore
  /\ everCached' = Remember(everCached, fileStore', run)
  /\ UNCHANGED newSearchResults
  /\ Combine
  /\ UNCHANGED <<run, tracks, loaded, searchCache, tracksToSearch, cachedResults, i,
                 batchPromises, searchLog, searchResults, playlistTracks>>
  /\ UNCHANGED exceptRun

\* the process dies while writeFile has written n tokens of the text
CrashDuringSave(n) ==
  /\ runPc = "save"
  /\ n < Len(JSONstringify(searchCache))
  /\ fileStore' = WrittenFile(searchCache, n)
  /\ everCached' = Remember(everCached, fileStore', run)
  /\ runPc' = "crashed"
  /\ UNCHANGED <<run, tracks, loaded, searchCache, tracksToSearch, cachedResults, i,
                 batchPromises, newSearchResults, allTrackResults, searchLog, searchResults,
                 playlistTracks, newTracksToAdd, newTrackUris>>
  /\ UNCHANGED exceptRun

\* the program is invoked again on the same playlist
NewRun ==
  /\ runPc \in {"done", "crashed"}
  /\ run < MaxRuns
  /\ Len(tracks) <= MaxRerunTracks
  /\ runPc' = "start"
  /\ run' = run + 1
  /\ loaded' = EmptyCache /\ searchCache' = EmptyCache /\ tracksToSearch' = <<>>
  /\ cachedResults' = <<>> /\ i' = 0 /\ batchPromises' = <<>>
  /\ newSearchResults' = <<>> /\ allTrackResults' = <<>> /\ searchLog' = {}
  /\ searchResults' = <<>>
  /\ newTracksToAdd' = <<>> /\ newTrackUris' = <<>>
  /\ UNCHANGED <<tracks, fileStore, everCached, playlistTracks>>
  /\ UNCHANGED exceptRun

(***************************************************************************)
(* SongNormalizer (src/data/song-normalizer.js): quality scoring           *)
(***************************************************************************)
HasPrefix(s, w) == Len(s) >= Len(w) /\ SubSeq(s, 1, Len(w)) = w

\* position of the first character at or after from that is no whitespace
RECURSIVE SkipSpaces(_, _)
SkipSpaces(s, from) ==
  IF from <= Len(s) /\ IsSpace(s[from]) THEN SkipSpaces(s, from + 1) ELSE from

AllDigits(s) == \A p \in 1..Len(s) : s[p] \in Digits
NoLetters(s) == \A p \in 1..Len(s) : s[p] \notin DOMAIN UpperToLower \cup LowerLetters

kTrackWord == <<"t", "r", "a", "c", "k">>
kUnknown == <<"u", "n", "k", "n", "o", "w", "n">>
kApple == <<"a", "p", "p", "l", "e">>
kMusic == <<"m", "u", "s", "i", "c">>
UnknownWhat == {<<"a", "r", "t", "i", "s", "t">>, <<"a", "l", "b", "u", "m">>, <<"t", "i", "t", "l", "e">>}

\* this.invalidPatterns, in order
invalidPatterns == <<"track", "unknown", "digits", "noLetters", "appleMusic">>
PatternCount == Len(invalidPatterns)
\* the patterns written with the g flag
IsGlobal(k) == k \in {1, 2, 5}

\* where a match of pattern k that starts at position 0 of text ends (the
\* number of characters matched), or -1 when the pattern does not match there
MatchEnd(k, text) ==
  LET lower == ToLowerCase(text)
      rest(word) == SkipSpaces(lower, Len(word) + 1)
  IN CASE k = 1 ->
            IF /\ HasPrefix(lower, kTrackWord)
               /\ rest(kTrackWord) > Len(kTrackWord) + 1
               /\ rest(kTrackWord) <= Len(lower)
               /\ AllDigits(SubSeq(lower, rest(kTrackWord), Len(lower)))
            THEN Len(text) ELSE -1
       [] k = 2 ->
            IF /\ HasPrefix(lower, kUnknown)
               /\ rest(kUnknown) > Len(kUnknown) + 1
               /\ SubSeq(lower, rest(kUnknown), Len(lower)) \in UnknownWhat
            THEN Len(text) ELSE -1
       [] k = 3 -> IF Len(text) > 0 /\ AllDigits(text) THEN Len(text) ELSE -1
       [] k = 4 -> IF NoLetters(text) THEN Len(text) ELSE -1
       [] k = 5 ->
            IF /\ HasPrefix(lower, kApple)
               /\ rest(kApple) > Len(kApple) + 1
               /\ HasPrefix(SubSeq(lower, rest(kApple), Len(lower)), kMusic)
            THEN rest(kApple) - 1 + Len(kMusic) ELSE -1

\* normalized records the scorer is studied on; year and duration are a
\* validated number, 0 standing for null
LongTitle == [p \in 1..101 |-> "a"]
ScoreTitles ==
  {<<>>, <<"T", "r", "a", "c", "k", " ", "1">>, <<"T", "r", "a", "c", "k", " ", "2">>,
   <<"U", "n", "k", "n", "o", "w", "n", " ", "T", "i", "t", "l", "e">>, <<"A", "p", "p", "l", "e", " ", "M", "u", "s", "i", "c", " ", "H", "i", "t", "s">>,
   <<"A">>, <<"A", "b", "c">>, LongTitle}
ScoreArtists == {<<>>, <<"U", "n", "k", "n", "o", "w", "n", " ", "A", "r", "t", "i", "s", "t">>, <<"X", "y">>}
NormalizedRecords ==
  [title : ScoreTitles, artist : ScoreArtists, album : {<<>>, <<"L", "p">>},
   year : {0, 1999}, duration : {0, 215}, genre : {<<>>, <<"P", "o", "p">>}]

\* the matches of the pooled texts, computed once
MatchEndMemo ==
  [k \in 1..PatternCount |-> [text \in ScoreTitles \cup ScoreArtists |-> MatchEnd(k, text)]]

\* pattern.test(text) for a pattern whose lastIndex is from: a pattern with
\* the g flag starts at lastIndex, where ^ matches only if lastIndex is 0,
\* and leaves the end of the match, or 0 after a failure, in lastIndex
MatchEndOf(k, text) ==
  IF text \in DOMAIN MatchEndMemo[k] THEN MatchEndMemo[k][text] ELSE MatchEnd(k, text)
PatternTest(k, from, text) ==
  IF ~IsGlobal(k) THEN [matched |-> MatchEndOf(k, text) >= 0, lastIndex |-> from]
  ELSE IF from > 0 THEN [matched |-> FALSE, lastIndex |-> 0]
  ELSE [matched |-> MatchEndOf(k, text) >= 0, lastIndex |-> Max(MatchEndOf(k, text), 0)]

\* this.invalidPatterns.some(pattern => pattern.test(text)), from pattern k on
RECURSIVE SomePatternTests(_, _, _)
SomePatternTests(indexes, text, k) ==
  IF k > PatternCount THEN [found |-> FALSE, lastIndex |-> indexes]
  ELSE LET t == PatternTest(k, indexes[k], text)
           after == [indexes EXCEPT ![k] = t.lastIndex]
       IN IF t.matched THEN [found |-> TRUE, lastIndex |-> after]
          ELSE SomePatternTests(after, text, k + 1)

\* the suspicious-pattern check of one field: skipped for an empty field
SuspiciousCheck(indexes, text) ==
  IF text = <<>> THEN [found |-> FALSE, lastIndex |-> indexes]
  ELSE SomePatternTests(indexes, text, 1)

RECURSIVE SumOf(_)
SumOf(numbers) == IF numbers = <<>> THEN 0 ELSE Head(numbers) + SumOf(Tail(numbers))

Clamp_NoCeiling(score) == Max(0, score)

\* Math.max(0, Math.min(100, score))
Clamp(score) == Max(0, Min(100, score))

ConfidenceOf(score) == IF score < 70 THEN "low" ELSE IF score < 85 THEN "medium" ELSE "high"

\* validateAndScore(normalized) by an instance whose patterns have the given
\* lastIndex values: the quality it assigns and the lastIndex values it leaves
validateAndScore(normalized, indexes) ==
  LET titleCheck == SuspiciousCheck(indexes, normalized.title)
      artistCheck == SuspiciousCheck(titleCheck.lastIndex, normalized.artist)
      penalties ==
        <<IF normalized.title = <<>> THEN [issue |-> "missing_title", points |-> 50]
          ELSE Null,
          IF normalized.artist = <<>> THEN [issue |-> "missing_artist", points |-> 50]
          ELSE Null,
          IF titleCheck.found THEN [issue |-> "suspicious_title", points |-> 20] ELSE Null,
          IF artistCheck.found THEN [issue |-> "suspicious_artist", points |-> 20] ELSE Null,
          IF normalized.title # <<>> /\ Len(normalized.title) < 2
          THEN [issue |-> "title_too_short", points |-> 15] ELSE Null,
          IF normalized.title # <<>> /\ Len(normalized.title) > 100
          THEN [issue |-> "title_too_long", points |-> 10] ELSE Null>>
      applied == SelectSeq(penalties, LAMBDA x : x # Null)
      bonus == (IF normalized.album # <<>> THEN 5 ELSE 0)
               + (IF normalized.year # 0 THEN 5 ELSE 0)
               + (IF normalized.duration # 0 THEN 5 ELSE 0)
               + (IF normalized.genre # <<>> THEN 5 ELSE 0)
      score == 100 - SumOf([p \in DOMAIN applied |-> applied[p].points]) + bonus
  IN [quality |-> [score |-> Clamp(score),
                   issues |-> [p \in DOMAIN applied |-> applied[p].issue],
                   confidence |-> ConfidenceOf(score)],
      lastIndex |-> artistCheck.lastIndex]

\* quality of createFallbackNormalization
FallbackQuality ==
  [score |-> 0, issues |-> <<"normalization_failed">>, confidence |-> "low"]

\* the state of a new instance
NoIndexes == [k \in 1..PatternCount |-> 0]

NormIdle == lastIndex = NoIndexes /\ scored = Null

\* normalizeSong reaches validateAndScore with the record normalized
ScoredAs(normalized, outcome) ==
  /\ scored' = [normalized |-> normalized, quality |-> outcome.quality, fallback |-> FALSE]
  /\ lastIndex' = outcome.lastIndex

ValidateAndScore(normalized) ==
  /\ ScoredAs(normalized, validateAndScore(normalized, lastIndex))
  /\ UNCHANGED exceptNorm

\* normalizeSong catches an error and returns createFallbackNormalization
CreateFallbackNormalization ==
  /\ scored' = [quality |-> FallbackQuality, fallback |-> TRUE]
  /\ UNCHANGED lastIndex
  /\ UNCHANGED exceptNorm

(***************************************************************************)
(* SongValidator (src/data/song-validator.js)                              *)
(***************************************************************************)
\* new Date().getFullYear()
currentYear == 2026

\* w occurs in s
Occurs(s, w) == \E p \in 1..(Len(s) - Len(w) + 1) : SubSeq(s, p, p + Len(w) - 1) = w

kUntitled == <<"u", "n", "t", "i", "t", "l", "e", "d">>
SuspiciousWords ==
  {<<"t", "e", "s", "t">>, <<"d", "e", "b", "u", "g">>, <<"s", "a", "m", "p", "l", "e">>}

\* suspiciousPatterns.some(pattern => pattern.test(text)); lower is
\* text in lower case, for the patterns with the i flag
SomeSuspiciousPattern(text, lower) ==
  \/ /\ HasPrefix(lower, kTrackWord)
     /\ SkipSpaces(lower, Len(kTrackWord) + 1) <= Len(lower)
     /\ AllDigits(SubSeq(lower, SkipSpaces(lower, Len(kTrackWord) + 1), Len(lower)))
  \/ HasPrefix(lower, kUnknown)
  \/ HasPrefix(lower, kUntitled)
  \/ Len(text) > 0 /\ AllDigits(text)
  \/ \A p \in 1..Len(text) : ~IsAlnum(text[p])
  \/ \E w \in SuspiciousWords : Occurs(lower, w)

\* SongValidator.isSuspiciousContent
isSuspiciousContent(text) == SomeSuspiciousPattern(text, ToLowerCase(text))

\* !song[field] || song[field].trim() === ""
FieldMissing(value) == Trim(OrEmpty(value)) = <<>>

\* the list holding entry when condition holds, else the empty list
PushIf(condition, entry) == IF condition THEN <<entry>> ELSE <<>>

\* validation.score < 50
BelowValidityFloor(score) == score < 50

\* SongValidator.validateSong; a year or duration of 0 stands for every
\* falsy value (null, undefined, 0)
validateSong(track) ==
  LET score == IF track.quality = Null THEN 0 ELSE track.quality.score
      issues == PushIf(FieldMissing(track.title), "missing_title")
                \o PushIf(FieldMissing(track.artist), "missing_artist")
                \o PushIf(BelowValidityFloor(score), "low_quality_score")
  IN [isValid |-> issues = <<>>,
      issues |-> issues,
      warnings |->
        PushIf(OrEmpty(track.title) # <<>> /\ isSuspiciousContent(OrEmpty(track.title)),
               "suspicious_title_content")
        \o PushIf(OrEmpty(track.artist) # <<>> /\ isSuspiciousContent(OrEmpty(track.artist)),
                  "suspicious_artist_content")
        \o PushIf(track.year # 0 /\ (track.year < 1900 \/ track.year > currentYear),
                  "invalid_year")
        \o PushIf(track.duration # 0 /\ (track.duration < 5 \/ track.duration > 1800),
                  "unusual_duration"),
      score |-> score,
      confidence |-> IF track.quality = Null THEN "unknown" ELSE track.quality.confidence]

\* const { minQualityScore = 50, allowLowConfidence = false,
\* removeInvalid = true } = options: an option that is absent has its default
OptionOr(options, name, default) ==
  IF name \in DOMAIN options THEN options[name] ELSE default

\* validation.score < minQualityScore
BelowMinimum_FixedFloor(validation, minQualityScore) == validation.score < 50

BelowMinimum(validation, minQualityScore) == validation.score < minQualityScore

\* results before the first track
EmptyResults(songs) ==
  [valid |-> <<>>, invalid |-> <<>>, warnings |-> <<>>,
   stats |-> [total |-> Len(songs), valid |-> 0, invalid |-> 0, filtered |-> 0]]

\* the callback of songs.forEach for one track and its validation
FilterSong(results, track, validation, options) ==
  IF ~validation.isValid /\ OptionOr(options, "removeInvalid", TRUE)
  THEN [results EXCEPT !.invalid = Append(@, [song |-> track, validation |-> validation]),
                       !.stats.invalid = @ + 1]
  ELSE IF BelowMinimum(validation, OptionOr(options, "minQualityScore", 50))
  THEN [results EXCEPT !.invalid = Append(@, [song |-> track, validation |-> validation]),
                       !.stats.filtered = @ + 1]
  ELSE IF ~OptionOr(options, "allowLowConfidence", FALSE) /\ validation.confidence = "low"
  THEN [results EXCEPT !.invalid = Append(@, [song |-> track, validation |-> validation]),
                       !.stats.filtered = @ + 1]
  ELSE [results EXCEPT !.warnings = @ \o PushIf(validation.warnings # <<>>,
                                                 [song |-> track, validation |-> validation]),
                       !.valid = Append(@, track),
                       !.stats.valid = @ + 1]

\* songs.forEach from the k-th track on
RECURSIVE FilterFrom(_, _, _, _)
FilterFrom(songs, k, options, results) ==
  IF k > Len(songs) THEN results
  ELSE FilterFrom(songs, k + 1, options,
                  FilterSong(results, songs[k], validateSong(songs[k]), options))

\* SongValidator.filterSongs
filterSongs(songs, options) == FilterFrom(songs, 1, options, EmptyResults(songs))

\* normalized songs the filter is studied on
FilterTitles == {<<>>, <<" ">>, <<"S", "o">>, <<"T", "e", "s", "t">>}
FilterArtists == {<<>>, <<"A", "b">>}
FilterQualities ==
  {Null} \cup {[score |-> n, confidence |-> ConfidenceOf(n)] : n \in {0, 40, 55, 65, 75, 90}}
FilterSongPool ==
  {[title |-> t, artist |-> a, quality |-> q, year |-> n.year, duration |-> n.duration] :
     t \in FilterTitles, a \in FilterArtists, q \in FilterQualities,
     n \in {[year |-> 0, duration |-> 0], [year |-> 1999, duration |-> 215],
            [year |-> 1800, duration |-> 2000]}}
\* the songs that occur in batches of several songs
FilterCore ==
  {x \in FilterSongPool :
     /\ x.year = 1999 /\ x.title \in {<<>>, <<"S", "o">>} /\ x.artist # <<>>
     /\ x.quality # Null /\ x.quality.score \in {40, 55, 90}}
FilterBatches == {<<x>> : x \in FilterSongPool} \cup SeqsUpTo(FilterCore, MaxSongs)

\* the options objects: each option given or left to its default
NoOptions == [name \in {} |-> TRUE]
FilterOptions ==
  {m @@ a @@ r :
     m \in {NoOptions} \cup {("minQualityScore" :> n) : n \in {30, 60}},
     a \in {NoOptions} \cup {("allowLowConfidence" :> b) : b \in BOOLEAN},
     r \in {NoOptions} \cup {("removeInvalid" :> b) : b \in BOOLEAN}}

FilterIdle == filterPc = "idle" /\ filterCall = Null /\ filterResults = Null

FilterSongs(songs, options) ==
  /\ filterPc = "idle"
  /\ filterCall' = [songs |-> songs, options |-> options]
  /\ filterResults' = filterSongs(songs, options)
  /\ filterPc' = "returned"
  /\ UNCHANGED exceptFilter

(***************************************************************************)
(* SongNormalizer (src/data/song-normalizer.js): normalizeSong             *)
(***************************************************************************)
\* a number held by a field that may also be null
Num(n) == [number |-> n]

\* characters outside ASCII, each one character of the text
kEllipsis == "[ellipsis]"
Dashes == {"[en dash]", "[em dash]"}

ToUpperChar(c) ==
  IF c \in LowerLetters THEN CHOOSE u \in DOMAIN UpperToLower : UpperToLower[u] = c ELSE c

\* the first position of lo..hi that satisfies P, or 0
FirstWhere(lo, hi, P(_)) ==
  IF \E p \in lo..hi : P(p)
  THEN CHOOSE p \in lo..hi : P(p) /\ \A q \in lo..(p - 1) : ~P(q)
  ELSE 0

\* w occurs in text at position p
StartsAt(text, p, w) == p + Len(w) - 1 <= Len(text) /\ SubSeq(text, p, p + Len(w) - 1) = w

\* replace(/[…]/g, "...") and replace(/[–—]/g, "-")
RECURSIVE NormalizeEllipsisAndDashes(_)
NormalizeEllipsisAndDashes(s) ==
  IF s = <<>> THEN <<>>
  ELSE (IF Head(s) = kEllipsis THEN <<".", ".", ".">>
        ELSE IF Head(s) \in Dashes THEN <<"-">> ELSE <<Head(s)>>)
       \o NormalizeEllipsisAndDashes(Tail(s))

\* replace(/^\W+|\W+$/g, "")
StripNonWordEnds(s) ==
  IF \A p \in DOMAIN s : ~IsWord(s[p]) THEN <<>>
  ELSE SubSeq(s, FirstWhere(1, Len(s), LAMBDA p : IsWord(s[p])),
              CHOOSE p \in DOMAIN s : IsWord(s[p]) /\ \A q \in (p + 1)..Len(s) : ~IsWord(s[q]))

\* cleanText(text); the quote classes of this copy replace a character by itself
cleanText(text) ==
  IF text = Undefined \/ text = <<>> THEN <<>>
  ELSE Trim(StripNonWordEnds(NormalizeEllipsisAndDashes(CollapseWhitespace(Trim(text)))))

\* this.stopWords
stopWords ==
  {<<"t", "h", "e">>, <<"a">>, <<"a", "n">>, <<"a", "n", "d">>, <<"o", "r">>, <<"b", "u", "t">>, <<"i", "n">>, <<"o", "n">>, <<"a", "t">>, <<"t", "o">>, <<"f", "o", "r">>, <<"o", "f">>, <<"w", "i", "t", "h">>, <<"b", "y">>}

\* String.prototype.split(" ")
RECURSIVE SplitSpace(_, _)
SplitSpace(s, word) ==
  IF s = <<>> THEN <<word>>
  ELSE IF Head(s) = " " THEN <<word>> \o SplitSpace(Tail(s), <<>>)
  ELSE SplitSpace(Tail(s), Append(word, Head(s)))

\* the callback of toTitleCase's map
CapitalizeWord(word) ==
  IF word = <<>> \/ (Len(word) <= 3 /\ word \in stopWords) THEN word
  ELSE <<ToUpperChar(word[1])>> \o Tail(word)

\* replace(/^[a-z]/, ...) and replace(/\s+[a-z]$/g, ...)
CapitalizeEnds(s) ==
  [p \in DOMAIN s |->
     IF p = 1 \/ (p = Len(s) /\ p > 1 /\ IsSpace(s[p - 1])) THEN ToUpperChar(s[p]) ELSE s[p]]

toTitleCase(text) ==
  IF text = <<>> THEN <<>>
  ELSE LET words == SplitSpace(ToLowerCase(text), <<>>)
       IN CapitalizeEnds(JoinSpace([p \in DOMAIN words |-> CapitalizeWord(words[p])]))

\* validateYear, validateDuration, validatePlayCount: !value holds for null
\* and for the number 0; parseInt of an integer is the integer
IsFalsyNumber(value) == value = Null \/ value = Num(0)
KeepWithin(value, lowest, highest) ==
  IF IsFalsyNumber(value) THEN Null
  ELSE IF value.number >= lowest /\ value.number <= highest THEN value ELSE Null
validateYear(year) == KeepWithin(year, 1900, currentYear)
validateDuration(duration) == KeepWithin(duration, 5, 1200)
validatePlayCount(playCount) == KeepWithin(playCount, 0, 100000)

\* the alternatives of this.versionPatterns, in order
versionKeywords ==
  <<<<"r", "e", "m", "i", "x">>,
    <<"m", "i", "x">>,
    <<"e", "d", "i", "t">>,
    <<"v", "e", "r", "s", "i", "o", "n">>,
    <<"r", "e", "m", "a", "s", "t", "e", "r">>,
    <<"l", "i", "v", "e">>,
    <<"a", "c", "o", "u", "s", "t", "i", "c">>,
    <<"i", "n", "s", "t", "r", "u", "m", "e", "n", "t", "a", "l">>,
    <<"r", "a", "d", "i", "o">>,
    <<"c", "l", "e", "a", "n">>,
    <<"e", "x", "p", "l", "i", "c", "i", "t">>,
    <<"d", "e", "l", "u", "x", "e">>>>

KeywordAt(lower, p) == \E k \in DOMAIN versionKeywords : StartsAt(lower, p, versionKeywords[k])

\* where the keyword that starts at q ends; 0 when q is 0
KeywordEnd(lower, q) ==
  IF q = 0 THEN 0
  ELSE q - 1 + Len(versionKeywords[CHOOSE k \in DOMAIN versionKeywords :
                                     StartsAt(lower, q, versionKeywords[k])])

\* where the first keyword at or after from ends, or 0: the lazy .*? before
\* the keyword stops at the first position where an alternative matches
FirstKeywordEnd(lower, from) ==
  KeywordEnd(lower, FirstWhere(from, Len(lower), LAMBDA p : KeywordAt(lower, p)))

\* the first closing bracket after the keyword that ends at e; 0 when e is 0
ClosingAfter(lower, e, closing) ==
  IF e = 0 THEN 0 ELSE FirstWhere(e + 1, Len(lower), LAMBDA r : lower[r] = closing)

\* where a match of /\((.*?(?:remix|...).*?)\)/ that starts at p ends, or 0
BracketMatchEnd(lower, p, opening, closing) ==
  IF lower[p] # opening THEN 0
  ELSE ClosingAfter(lower, FirstKeywordEnd(lower, p + 1), closing)

\* where a match of /\s+-\s+(.*?(?:remix|...).*?)$/ that starts at p ends, or 0
DashAt(lower, d) ==
  /\ d + 1 <= Len(lower)
  /\ lower[d] = "-"
  /\ IsSpace(lower[d + 1])
  /\ FirstKeywordEnd(lower, d + 2) > 0
DashMatchEnd(lower, p) ==
  IF IsSpace(lower[p]) /\ DashAt(lower, SkipSpaces(lower, p)) THEN Len(lower) ELSE 0

\* where a match of version pattern k that starts at p ends, or 0
VersionMatchEnd(lower, p, k) ==
  CASE k = 1 -> BracketMatchEnd(lower, p, "(", ")")
    [] k = 2 -> BracketMatchEnd(lower, p, "[", "]")
    [] k = 3 -> DashMatchEnd(lower, p)

Span(from, to) == [from |-> from, to |-> to]
SpanText(text, span) == SubSeq(text, span.from, span.to)

\* the first position at or after from where version pattern k matches, or 0
VersionMatchStart(lower, from, k) ==
  FirstWhere(from, Len(lower), LAMBDA p : VersionMatchEnd(lower, p, k) > 0)

\* the matches of version pattern k from position from on, left to right
\* without overlap (the patterns have the g flag)
RECURSIVE VersionMatchesFrom(_, _, _)
MatchAndLater(lower, from, to, k) ==
  <<Span(from, to)>> \o VersionMatchesFrom(lower, to + 1, k)
MatchesStartingAt(lower, start, k) ==
  IF start = 0 THEN <<>> ELSE MatchAndLater(lower, start, VersionMatchEnd(lower, start, k), k)
VersionMatchesFrom(lower, from, k) ==
  MatchesStartingAt(lower, VersionMatchStart(lower, from, k), k)

\* text.match(pattern) for version pattern k: the matched texts as spans
VersionMatches(text, k) == VersionMatchesFrom(ToLowerCase(text), 1, k)

\* text without the spans
RemoveSpans(text, spans) ==
  SelectSeq([p \in DOMAIN text |-> [at |-> p, char |-> text[p]]],
            LAMBDA x : \A k \in DOMAIN spans : x.at < spans[k].from \/ x.at > spans[k].to)
Chars(marked) == [p \in DOMAIN marked |-> marked[p].char]

VersionText(text) == [text |-> text]
kReadingTrim == "Cannot read properties of undefined (reading 'trim')"
kReadingMatchAll == "Cannot read properties of undefined (reading 'matchAll')"

\* the body of the loop of extractVersionInfo for the matches of one
\* pattern: match is the array of the matched texts, so match[1] is the
\* second matched text, undefined when there is one match
VersionInfoOf(text, matches) ==
  IF Len(matches) < 2 THEN Thrown(kReadingTrim)
  ELSE [version |-> Trim(SpanText(text, matches[2])),
        cleanText |-> Trim(Chars(RemoveSpans(text, matches)))]

\* extractVersionInfo(text): null, { version, cleanText } or a TypeError
RECURSIVE VersionInfoFrom(_, _)
VersionInfoOrNext(text, matches, k) ==
  IF matches # <<>> THEN VersionInfoOf(text, matches) ELSE VersionInfoFrom(text, k + 1)
VersionInfoFrom(text, k) ==
  IF k > 3 THEN Null ELSE VersionInfoOrNext(text, VersionMatches(text, k), k)
extractVersionInfo(text) == VersionInfoFrom(text, 1)

\* this.featurePatterns, in order: the keyword, whether \.? follows it, and
\* whether the clause stands in parentheses
FeaturePattern(word, dot, parenthesised) ==
  [word |-> word, dot |-> dot, parenthesised |-> parenthesised]
featurePatterns ==
  <<FeaturePattern(<<"f", "e", "a", "t">>, TRUE, TRUE), FeaturePattern(<<"f", "e", "a", "t", "u", "r", "i", "n", "g">>, FALSE, TRUE),
    FeaturePattern(<<"f", "t">>, TRUE, TRUE), FeaturePattern(<<"w", "i", "t", "h">>, FALSE, TRUE),
    FeaturePattern(<<"f", "e", "a", "t">>, TRUE, FALSE), FeaturePattern(<<"f", "e", "a", "t", "u", "r", "i", "n", "g">>, FALSE, FALSE),
    FeaturePattern(<<"f", "t">>, TRUE, FALSE), FeaturePattern(<<"w", "i", "t", "h">>, FALSE, FALSE)>>

\* the position after the keyword that starts at p and its optional dot
AfterKeyword(lower, p, pattern) ==
  IF pattern.dot /\ p + Len(pattern.word) <= Len(lower) /\ lower[p + Len(pattern.word)] = "."
  THEN p + Len(pattern.word) + 1 ELSE p + Len(pattern.word)

\* where the captured group starts when \s+ is to match at a, or 0: the
\* whitespace is followed by a character the group accepts (the texts handed
\* to extractFeatures have no runs of whitespace)
GroupAfterSpace(lower, a, Stops) ==
  IF /\ a <= Len(lower)
     /\ IsSpace(lower[a])
     /\ SkipSpaces(lower, a) <= Len(lower)
     /\ lower[SkipSpaces(lower, a)] \notin Stops
  THEN SkipSpaces(lower, a) ELSE 0

\* where the captured group of a match starts whose keyword starts at p, or 0
GroupStart(lower, p, pattern, Stops) ==
  IF StartsAt(lower, p, pattern.word)
  THEN GroupAfterSpace(lower, AfterKeyword(lower, p, pattern), Stops) ELSE 0

\* the position before stop, the first stop character; the end of the text when stop is 0
BeforeStop(lower, stop) == IF stop = 0 THEN Len(lower) ELSE stop - 1
\* the last position of the run of characters outside Stops that starts at from
RunEnd(lower, from, Stops) ==
  BeforeStop(lower, FirstWhere(from, Len(lower), LAMBDA r : lower[r] \in Stops))

\* /\(feat\.?\s+([^)]+)\)/ at p: the match and its group, or Null
ClosedGroup(lower, p, g, last) ==
  IF last = Len(lower) THEN Null ELSE [from |-> p, to |-> last + 1, group |-> Span(g, last)]
ParenthesisedGroup(lower, p, g) ==
  IF g = 0 THEN Null ELSE ClosedGroup(lower, p, g, RunEnd(lower, g, {")"}))
ParenthesisedFeatureAt(lower, p, pattern) ==
  IF lower[p] # "(" THEN Null
  ELSE ParenthesisedGroup(lower, p, GroupStart(lower, p + 1, pattern, {")"}))

\* /feat\.?\s+([^,&\(]+)/ at p: the match and its group, or Null
OpenGroup(p, g, last) == [from |-> p, to |-> last, group |-> Span(g, last)]
BareGroup(lower, p, g) ==
  IF g = 0 THEN Null ELSE OpenGroup(p, g, RunEnd(lower, g, {",", "&", "("}))
BareFeatureAt(lower, p, pattern) ==
  BareGroup(lower, p, GroupStart(lower, p, pattern, {",", "&", "("}))

FeatureAt(lower, p, pattern) ==
  IF pattern.parenthesised THEN ParenthesisedFeatureAt(lower, p, pattern)
  ELSE BareFeatureAt(lower, p, pattern)

FeatureStart(lower, from, pattern) ==
  FirstWhere(from, Len(lower), LAMBDA p : FeatureAt(lower, p, pattern) # Null)

\* [...text.matchAll(pattern)]
RECURSIVE FeatureMatchesFrom(_, _, _)
FeatureAndLater(lower, found, pattern) ==
  <<found>> \o FeatureMatchesFrom(lower, found.to + 1, pattern)
FeaturesStartingAt(lower, start, pattern) ==
  IF start = 0 THEN <<>> ELSE FeatureAndLater(lower, FeatureAt(lower, start, pattern), pattern)
FeatureMatchesFrom(lower, from, pattern) ==
  FeaturesStartingAt(lower, FeatureStart(lower, from, pattern), pattern)

\* the matches of all patterns in the order in which extractFeatures visits them
RECURSIVE AllFeatureMatches(_, _)
AllFeatureMatches(lower, k) ==
  IF k > Len(featurePatterns) THEN <<>>
  ELSE FeatureMatchesFrom(lower, 1, featurePatterns[k]) \o AllFeatureMatches(lower, k + 1)

\* split(/[,&]/).map(trim).filter(length > 0)
RECURSIVE SplitNames(_, _)
SplitNames(s, name) ==
  IF s = <<>> THEN (IF Trim(name) = <<>> THEN <<>> ELSE <<Trim(name)>>)
  ELSE IF Head(s) \in {",", "&"}
  THEN (IF Trim(name) = <<>> THEN <<>> ELSE <<Trim(name)>>) \o SplitNames(Tail(s), <<>>)
  ELSE SplitNames(Tail(s), Append(name, Head(s)))

\* s.replace(w, ""): the first occurrence of the string w is removed
RemoveAt(s, p, n) == IF p = 0 THEN s ELSE SubSeq(s, 1, p - 1) \o SubSeq(s, p + n, Len(s))
ReplaceFirst(s, w) == RemoveAt(s, FirstWhere(1, Len(s), LAMBDA p : StartsAt(s, p, w)), Len(w))

\* the loops of extractFeatures over the matches found in text
RECURSIVE CollectFeatures(_, _, _, _)
CollectFeatures(text, matches, features, cleaned) ==
  IF matches = <<>> THEN [features |-> features, cleanText |-> cleaned]
  ELSE CollectFeatures(text, Tail(matches),
         features \o SplitNames(SpanText(text, Head(matches).group), <<>>),
         Trim(ReplaceFirst(cleaned, SpanText(text, Head(matches)))))

\* extractFeatures(text); text.matchAll throws when text is undefined
extractFeatures(text) ==
  IF text = Undefined THEN Thrown(kReadingMatchAll)
  ELSE CollectFeatures(text, AllFeatureMatches(ToLowerCase(text), 1), <<>>, text)

\* normalizeArticles(artist): /^(.+),\s+(the|a|an)$/i
articles == <<<<"t", "h", "e">>, <<"a">>, <<"a", "n">>>>
ArticleOf(lower) ==
  FirstWhere(1, Len(articles), LAMBDA k :
    /\ Len(lower) >= Len(articles[k]) + 3
    /\ StartsAt(lower, Len(lower) - Len(articles[k]) + 1, articles[k])
    /\ IsSpace(lower[Len(lower) - Len(articles[k])])
    /\ \E c \in 2..(Len(lower) - Len(articles[k]) - 1) :
         /\ lower[c] = ","
         /\ \A q \in (c + 1)..(Len(lower) - Len(articles[k])) : IsSpace(lower[q]))
CommaBeforeArticle(lower, k) ==
  CHOOSE c \in 2..(Len(lower) - Len(articles[k]) - 1) :
    /\ lower[c] = ","
    /\ \A q \in (c + 1)..(Len(lower) - Len(articles[k])) : IsSpace(lower[q])
MoveArticle(artist, k) ==
  IF k = 0 THEN artist
  ELSE Trim(SubSeq(artist, Len(artist) - Len(articles[k]) + 1, Len(artist)) \o <<" ">>
            \o SubSeq(artist, 1, CommaBeforeArticle(ToLowerCase(artist), k) - 1))
normalizeArticles(artist) == MoveArticle(artist, ArticleOf(ToLowerCase(artist)))

\* separators: /\s+(&|and|\+|,)\s+/i
separatorWords == <<<<"&">>, <<"a", "n", "d">>, <<"+">>, <<",">>>>
SeparatorWordAt(lower, w) ==
  FirstWhere(1, Len(separatorWords), LAMBDA k :
    /\ StartsAt(lower, w, separatorWords[k])
    /\ w + Len(separatorWords[k]) <= Len(lower)
    /\ IsSpace(lower[w + Len(separatorWords[k])]))
SeparatorMatch(lower, w, k) ==
  IF k = 0 THEN Null
  ELSE [word |-> Span(w, w + Len(separatorWords[k]) - 1),
        to |-> SkipSpaces(lower, w + Len(separatorWords[k])) - 1]
SeparatorFrom(lower, w) == SeparatorMatch(lower, w, SeparatorWordAt(lower, w))
\* the match of separators at p: [word, to], or Null
SeparatorAt(lower, p) ==
  IF ~IsSpace(lower[p]) THEN Null ELSE SeparatorFrom(lower, SkipSpaces(lower, p))
SeparatorStart(lower, from) ==
  FirstWhere(from, Len(lower), LAMBDA p : SeparatorAt(lower, p) # Null)
SeparatorsTest(text) == SeparatorStart(ToLowerCase(text), 1) > 0

\* artist.split(separators): the pieces and, after each, the captured separator
RECURSIVE SplitSeparators(_, _, _)
PieceAndLater(text, lower, from, start, found) ==
  <<SubSeq(text, from, start - 1), SpanText(text, found.word)>>
  \o SplitSeparators(text, lower, found.to + 1)
PiecesFrom(text, lower, from, start) ==
  IF start = 0 THEN <<SubSeq(text, from, Len(text))>>
  ELSE PieceAndLater(text, lower, from, start, SeparatorAt(lower, start))
SplitSeparators(text, lower, from) ==
  PiecesFrom(text, lower, from, SeparatorStart(lower, from))

MainAndAdditional(parts) ==
  [main |-> Trim(parts[1]), additional |-> [p \in 1..(Len(parts) - 1) |-> Trim(parts[p + 1])]]

splitMultipleArtists(artist) ==
  IF SeparatorsTest(artist)
  THEN MainAndAdditional(SelectSeq(SplitSeparators(artist, ToLowerCase(artist), 1),
                                   LAMBDA part : ~SeparatorsTest(part)))
  ELSE [main |-> artist, additional |-> <<>>]

\* [...new Set(list)]: the first occurrence of every element
RECURSIVE Distinct(_, _)
Distinct(list, seen) ==
  IF list = <<>> THEN seen
  ELSE Distinct(Tail(list), IF Contains(seen, Head(list)) THEN seen ELSE Append(seen, Head(list)))

\* the flags processTitle reads from the version
IsLive(version) == \E p \in DOMAIN version : StartsAt(ToLowerCase(version), p, <<"l", "i", "v", "e">>)
IsRemix(version) ==
  Len(version) >= 3 /\ StartsAt(ToLowerCase(version), Len(version) - 2, <<"m", "i", "x">>)
IsInstrumental(version) ==
  \E p \in DOMAIN version : StartsAt(ToLowerCase(version), p, <<"i", "n", "s", "t", "r", "u", "m", "e", "n", "t", "a", "l">>)
IsExplicit(version) == \E p \in DOMAIN version : StartsAt(ToLowerCase(version), p, <<"e", "x", "p", "l", "i", "c", "i", "t">>)

NoVersion ==
  [version |-> Null, isLive |-> FALSE, isRemix |-> FALSE, isInstrumental |-> FALSE,
   isExplicit |-> FALSE]
VersionFlags(version) ==
  [version |-> VersionText(version), isLive |-> IsLive(version), isRemix |-> IsRemix(version),
   isInstrumental |-> IsInstrumental(version), isExplicit |-> IsExplicit(version)]

\* processTitle after extractVersionInfo: title is the working title
TitleAndFeatures(title, titleFeatures, flags) ==
  IF IsThrown(titleFeatures) THEN titleFeatures
  ELSE [title |-> toTitleCase(IF titleFeatures.features # <<>> THEN titleFeatures.cleanText
                              ELSE title),
        features |-> titleFeatures.features] @@ flags

\* processTitle with the result of extractVersionInfo: the working title
\* becomes versionMatch.cleanTitle, a property the result does not have
TitleAfterVersion(title, versionMatch) ==
  IF IsThrown(versionMatch) THEN versionMatch
  ELSE IF versionMatch = Null THEN TitleAndFeatures(title, extractFeatures(title), NoVersion)
  ELSE TitleAndFeatures(Undefined, extractFeatures(Undefined), VersionFlags(versionMatch.version))

\* processTitle(normalized): the fields it leaves, or the error it throws
processTitle(title) ==
  IF title = <<>> THEN [title |-> <<>>, features |-> <<>>] @@ NoVersion
  ELSE TitleAfterVersion(title, extractVersionInfo(title))

\* normalized.features.map((f) => this.toTitleCase(f))
TitleCased(list) == [p \in DOMAIN list |-> toTitleCase(list[p])]

\* processArtist after splitMultipleArtists
ArtistAndFeatures(multipleArtists, features) ==
  [artist |-> toTitleCase(multipleArtists.main),
   features |-> Distinct(TitleCased(features \o multipleArtists.additional), <<>>)]

\* processArtist after extractFeatures
ArtistAfterFeatures(artist, artistFeatures, features) ==
  ArtistAndFeatures(
    splitMultipleArtists(IF artistFeatures.features # <<>> THEN artistFeatures.cleanText
                         ELSE artist),
    features \o artistFeatures.features)

\* processArtist after normalizeArticles
ArtistAfterArticles(artist, features) ==
  ArtistAfterFeatures(artist, extractFeatures(artist), features)

\* processArtist(normalized): artist and features as it leaves them
processArtist(artist, features) ==
  IF artist = <<>> THEN [artist |-> <<>>, features |-> features]
  ELSE ArtistAfterArticles(normalizeArticles(artist), features)

\* the album suffixes of processAlbum
albumSuffixes ==
  <<<<"b", "o", "n", "u", "s", " ", "t", "r", "a", "c", "k", " ", "v", "e", "r", "s", "i", "o", "n">>,
    <<"d", "e", "l", "u", "x", "e", " ", "e", "d", "i", "t", "i", "o", "n">>,
    <<"e", "x", "p", "a", "n", "d", "e", "d", " ", "e", "d", "i", "t", "i", "o", "n">>,
    <<"r", "e", "m", "a", "s", "t", "e", "r", "e", "d">>,
    <<"s", "p", "e", "c", "i", "a", "l", " ", "e", "d", "i", "t", "i", "o", "n">>>>
HasSuffix(s, w) == Len(s) >= Len(w) /\ SubSeq(s, Len(s) - Len(w) + 1, Len(s)) = w
SuffixOf(lower, opening, closing) ==
  FirstWhere(1, Len(albumSuffixes), LAMBDA k :
    HasSuffix(lower, <<opening>> \o albumSuffixes[k] \o <<closing>>))
WithoutSuffix(album, k) ==
  IF k = 0 THEN album ELSE TrimEnd(SubSeq(album, 1, Len(album) - 2 - Len(albumSuffixes[k])))
\* replace(/\s*\((Bonus Track Version|...)\)$/gi, "")
StripSuffix(album, opening, closing) ==
  WithoutSuffix(album, SuffixOf(ToLowerCase(album), opening, closing))
processAlbum(album) ==
  IF album = <<>> THEN <<>>
  ELSE toTitleCase(StripSuffix(StripSuffix(album, "(", ")"), "[", "]"))

\* createSearchString(text)
createSearchString(text) ==
  IF text = <<>> THEN <<>>
  ELSE JoinSpace(SelectSeq(
         SplitSpace(Trim(CollapseWhitespace(ReplaceSpecialChars(ToLowerCase(text)))), <<>>),
         LAMBDA word : word \notin stopWords))

\* value || fallback for a text field
OrDefault_Always(value, default) == default
OrDefault(value, default) == IF value = Undefined \/ value = <<>> THEN default ELSE value

kUnknownTitle == <<"U", "n", "k", "n", "o", "w", "n", " ", "T", "i", "t", "l", "e">>
kUnknownArtist == <<"U", "n", "k", "n", "o", "w", "n", " ", "A", "r", "t", "i", "s", "t">>

\* createFallbackNormalization(song)
createFallbackNormalization(raw) ==
  [original |-> raw,
   title |-> OrDefault(raw.title, kUnknownTitle),
   artist |-> OrDefault(raw.artist, kUnknownArtist),
   album |-> OrDefault(raw.album, <<>>),
   genre |-> OrDefault(raw.genre, <<>>),
   year |-> Null, duration |-> Null, playCount |-> Null,
   features |-> <<>>,
   searchTitle |-> ToLowerCase(kUnknownTitle),
   searchArtist |-> ToLowerCase(kUnknownArtist),
   searchAlbum |-> <<>>,
   quality |-> FallbackQuality] @@ NoVersion

\* the record normalizeSong has built when it reaches validateAndScore
FieldsWithArtist(raw, titleFields, artistFields, album) ==
  [original |-> raw,
   title |-> titleFields.title,
   artist |-> artistFields.artist,
   album |-> album,
   genre |-> cleanText(raw.genre),
   year |-> validateYear(raw.year),
   duration |-> validateDuration(raw.duration),
   playCount |-> validatePlayCount(raw.playCount),
   features |-> artistFields.features,
   version |-> titleFields.version,
   isLive |-> titleFields.isLive,
   isRemix |-> titleFields.isRemix,
   isInstrumental |-> titleFields.isInstrumental,
   isExplicit |-> titleFields.isExplicit,
   searchTitle |-> createSearchString(titleFields.title),
   searchArtist |-> createSearchString(artistFields.artist),
   searchAlbum |-> createSearchString(album)]

FieldsWithTitle(raw, titleFields) ==
  IF IsThrown(titleFields) THEN titleFields
  ELSE FieldsWithArtist(raw, titleFields,
         processArtist(cleanText(raw.artist), titleFields.features),
         processAlbum(cleanText(raw.album)))

\* normalizeSong up to createSearchStrings: the record, or the error thrown
NormalizedFields(raw) == FieldsWithTitle(raw, processTitle(cleanText(raw.title)))

\* what validateAndScore reads of the record (a validated year or duration is never 0)
NumberOrZero(value) == IF value = Null THEN 0 ELSE value.number
ScoreInput(fields) ==
  [title |-> fields.title, artist |-> fields.artist, album |-> fields.album,
   year |-> NumberOrZero(fields.year), duration |-> NumberOrZero(fields.duration),
   genre |-> fields.genre]

WithQuality(fields, outcome) ==
  [normalized |-> fields @@ [quality |-> outcome.quality], lastIndex |-> outcome.lastIndex]

\* the try block's result or, from the catch block, the fallback record
ReturnedOrFallback(raw, fields, indexes) ==
  IF IsThrown(fields)
  THEN [normalized |-> createFallbackNormalization(raw), lastIndex |-> indexes]
  ELSE WithQuality(fields, validateAndScore(ScoreInput(fields), indexes))

\* raw songs of the parser: a missing text is undefined, a missing number null
RawTitles ==
  {Undefined, <<"T", "r", "a", "c", "k", " ", "(", "L", "i", "v", "e", ")">>,
   <<"T", "r", "a", "c", "k", " ", "(", "L", "i", "v", "e", ")", " ", "N", "o", "w">>,
   <<"A", " ", "(", "L", "i", "v", "e", ")", " ", "(", "R", "e", "m", "i", "x", ")", " ", "B">>,
   <<"T", "r", "a", "c", "k", " ", "-", " ", "L", "i", "v", "e">>,
   <<"T", "r", "a", "c", "k", " ", "[", "L", "i", "v", "e", "]">>,
   <<"S", "o", "n", "g", " ", "(", "f", "e", "a", "t", ".", " ", "A", "r", "t", "i", "s", "t", " ", "B", ")">>,
   <<"S", "o", "n", "g", " ", "(", "f", "e", "a", "t", ".", " ", "A", "r", "t", "i", "s", "t", " ", "B", ")", " ", "X">>,
   <<"S", "o", "n", "g">>,
   <<"T", "r", "a", "c", "k", " ", "1">>,
   <<"a">>}
RawArtists ==
  {Undefined, <<"A", "r", "t", "i", "s", "t", " ", "A">>,
   <<"B", "e", "a", "t", "l", "e", "s", ",", " ", "T", "h", "e">>,
   <<"A", " ", "&", " ", "B">>,
   <<"U", "n", "k", "n", "o", "w", "n", " ", "A", "r", "t", "i", "s", "t">>}
RawNumbers ==
  {[year |-> Null, duration |-> Null, playCount |-> Null],
   [year |-> Num(0), duration |-> Num(0), playCount |-> Num(0)]}
  \cup {[year |-> Num(n[1]), duration |-> Num(n[2]), playCount |-> Num(n[3])] :
          n \in {<<1999, 215, 7>>, <<1900, 5, 0>>, <<currentYear, 1200, 100000>>,
                 <<1899, 4, -1>>, <<currentYear + 1, 1201, 100001>>}}
\* every title with every artist, and one song with every choice of numbers
RawSongs ==
  {[title |-> t, artist |-> a, album |-> l.album, genre |-> l.genre,
    year |-> Null, duration |-> Null, playCount |-> Null] :
     t \in RawTitles, a \in RawArtists,
     l \in {[album |-> Undefined, genre |-> Undefined], [album |-> <<"L", "p", " ", "(", "R", "e", "m", "a", "s", "t", "e", "r", "e", "d", ")">>, genre |-> <<"P", "o", "p">>]}}
  \cup {[title |-> <<"S", "o", "n", "g">>, artist |-> Undefined, album |-> <<"L", "p", " ", "(", "R", "e", "m", "a", "s", "t", "e", "r", "e", "d", ")">>, genre |-> <<"P", "o", "p">>,
          year |-> n.year, duration |-> n.duration, playCount |-> n.playCount] :
           n \in RawNumbers}

\* the fields of the pooled songs, computed once
NormalizedFieldsMemo == [raw \in RawSongs |-> NormalizedFields(raw)]
NormalizedFieldsOf(raw) == NormalizedFieldsMemo[raw]

\* normalizeSong(song) by an instance whose patterns have the given lastIndex values
normalizeSong(raw, indexes) == ReturnedOrFallback(raw, NormalizedFieldsOf(raw), indexes)

NormalizeIdle == normalizeCall = Null /\ normalizeReturn = Null

Normalize(raw, outcome) ==
  /\ normalizeCall' = raw
  /\ normalizeReturn' = outcome.normalized
  /\ lastIndex' = outcome.lastIndex
  /\ UNCHANGED scored
  /\ UNCHANGED exceptNormalize

NormalizeSong(raw) == Normalize(raw, normalizeSong(raw, lastIndex))

(***************************************************************************)
(* Playlist paging and additions (src/spotify/playlist.js)                 *)
(***************************************************************************)
\* the values of total: null before the first response, then
\* resp.body && resp.body.total
TotalNull == [kind |-> "null"]
TotalUndefined == [kind |-> "undefined"]
TotalOf(n) == [kind |-> "number", value |-> n]

\* an item of getPlaylistTracks whose track is null
NullTrackItem == 0
HasNullTrack(items) == \E p \in DOMAIN items : items[p] = NullTrackItem

\* while (total !== null && offset < total)
PagingContinues(newOffset, newTotal) ==
  newTotal # TotalNull /\ newTotal.kind = "number" /\ newOffset < newTotal.value

\* trackUris.filter((uri) => !existingUris.includes(uri))
Includes(uris, uri) == \E p \in DOMAIN uris : uris[p] = uri
NotIncluded(uris, uri) == ~Includes(uris, uri)
FilterNew(trackUris, existing) ==
  SelectSeq(trackUris, LAMBDA uri : NotIncluded(existing, uri))

\* urisToAdd.slice(i, i + 100)
addBatchSize == 100
AddBatch(uris, k) == SubSeq(uris, k + 1, Min(k + addBatchSize, Len(uris)))

\* addedCount += batch.length
CountAfter_OnePerRequest(count, batch) == count + 1
CountAfter(count, batch) == count + Len(batch)

Request(batch) == [batch |-> batch, outcome |-> "pending"]
Settle(requests, outcome) == [requests EXCEPT ![Len(requests)].outcome = outcome]
Returned(value) == [value |-> value]

ListIdle ==
  /\ listPc = "idle" /\ listCall = Null /\ fetched = <<>> /\ offset = 0 /\ total = TotalNull
  /\ existingUris = <<>> /\ urisToAdd = <<>> /\ addIndex = 0 /\ addedCount = 0
  /\ sent = <<>> /\ listReturn = Null

\* the call up to the first request of the paging loop
StartPaging(fn, trackUris) ==
  /\ listPc = "idle"
  /\ listCall' = [fn |-> fn, trackUris |-> trackUris]
  /\ listPc' = "requesting"
  /\ UNCHANGED <<fetched, offset, total, existingUris, urisToAdd, addIndex, addedCount,
                 sent, listReturn>>
  /\ UNCHANGED exceptList

FetchAllUserPlaylists == StartPaging("fetchAllUserPlaylists", <<>>)
FetchAllPlaylistTrackUris == StartPaging("fetchAllPlaylistTrackUris", <<>>)
AddTracksToPlaylist(trackUris) == StartPaging("addTracksToPlaylist", trackUris)

\* spotifyApi.getUserPlaylists({ offset, limit }) / getPlaylistTracks(...) is called
PageRequest ==
  /\ listPc = "requesting"
  /\ listPc' = "awaiting"
  /\ UNCHANGED <<listCall, fetched, offset, total, existingUris, urisToAdd, addIndex,
                 addedCount, sent, listReturn>>
  /\ UNCHANGED exceptList

\* the paging loop is over: the fetch functions return the items,
\* addTracksToPlaylist filters and makes its first request
AfterPaging(items) ==
  IF listCall.fn # "addTracksToPlaylist"
  THEN /\ listPc' = "returned"
       /\ listReturn' = Returned(items)
       /\ UNCHANGED <<existingUris, urisToAdd, addIndex, addedCount, sent>>
  ELSE /\ existingUris' = items
       /\ urisToAdd' = FilterNew(listCall.trackUris, items)
       /\ UNCHANGED <<addIndex, addedCount>>
       /\ IF urisToAdd' = <<>>
          THEN listPc' = "returned" /\ listReturn' = Returned(0) /\ UNCHANGED sent
          ELSE /\ listPc' = "adding"
               /\ sent' = <<Request(AddBatch(urisToAdd', 0))>>
               /\ UNCHANGED listReturn

\* a page arrives: body of the do-while loop after the await
PageResponse(items, reportedTotal) ==
  /\ listPc = "awaiting"
  /\ UNCHANGED listCall
  /\ IF listCall.fn # "fetchAllUserPlaylists" /\ HasNullTrack(items)
     THEN /\ listPc' = "threw"
          /\ listReturn' = Thrown(TypeErrorMessage)
          /\ UNCHANGED <<fetched, offset, total, existingUris, urisToAdd, addIndex,
                         addedCount, sent>>
     ELSE /\ fetched' = fetched \o items
          /\ total' = reportedTotal
          /\ offset' = offset + Len(items)
          /\ IF PagingContinues(offset', total')
             THEN /\ listPc' = "requesting"
                  /\ UNCHANGED <<existingUris, urisToAdd, addIndex, addedCount, sent,
                                 listReturn>>
             ELSE AfterPaging(fetched')
  /\ UNCHANGED exceptList

\* the page request rejects: catch, log, throw err
PageRejected(err) ==
  /\ listPc = "awaiting"
  /\ listPc' = "threw"
  /\ listReturn' = Thrown(err)
  /\ UNCHANGED <<listCall, fetched, offset, total, existingUris, urisToAdd, addIndex,
                 addedCount, sent>>
  /\ UNCHANGED exceptList

\* spotifyApi.addTracksToPlaylist(playlistId, batch) resolves
AddResolved ==
  /\ listPc = "adding"
  /\ addedCount' = CountAfter(addedCount, AddBatch(urisToAdd, addIndex))
  /\ addIndex' = addIndex + addBatchSize
  /\ IF addIndex' < Len(urisToAdd)
     THEN /\ sent' = Settle(sent, "resolved") \o <<Request(AddBatch(urisToAdd, addIndex'))>>
          /\ UNCHANGED <<listPc, listReturn>>
     ELSE /\ sent' = Settle(sent, "resolved")
          /\ listPc' = "returned"
          /\ listReturn' = Returned(addedCount')
  /\ UNCHANGED <<listCall, fetched, offset, total, existingUris, urisToAdd>>
  /\ UNCHANGED exceptList

\* spotifyApi.addTracksToPlaylist(playlistId, batch) rejects: catch, break
AddRejected ==
  /\ listPc = "adding"
  /\ sent' = Settle(sent, "rejected")
  /\ listPc' = "returned"
  /\ listReturn' = Returned(addedCount)
  /\ UNCHANGED <<listCall, fetched, offset, total, existingUris, urisToAdd, addIndex,
                 addedCount>>
  /\ UNCHANGED exceptList

(***************************************************************************)
(* Inputs and steps of the calls studied on their own                      *)
(***************************************************************************)
\* candidates and existing tracks the detector is studied on
NewAaBbCc == [title |-> <<"A", "a", " ", "B", "b", " ", "C", "c">>, artist |-> <<"X", " ", "X", " ", "X", " ", "X">>]
NewThriller == [title |-> <<"T", "h", "r", "i", "l", "l", "e", "r">>, artist |-> <<"M", "i", "c", "h", "a", "e", "l", " ", "J", "a", "c", "k", "s", "o", "n">>]
NewThrillerRemaster ==
  [title |-> <<"T", "h", "r", "i", "l", "l", "e", "r", " ", "(", "2", "0", "0", "3", " ", "R", "e", "m", "a", "s", "t", "e", "r", ")">>,
   artist |-> <<"M", "i", "c", "h", "a", "e", "l", " ", "J", "a", "c", "k", "s", "o", "n">>]
NewEmpty == [title |-> <<>>, artist |-> <<>>]

ExistingAaBbCc == [name |-> <<"A", "a", " ", "B", "b", " ", "C", "c">>, artists |-> <<<<"X", " ", "X", " ", "X", " ", "X">>>>,
                   album |-> <<"L", "p">>]
ExistingDeluxe == [name |-> <<"A", "a", " ", "B", "b", " ", "C", "c", " ", "(", "D", "e", "l", "u", "x", "e", ")">>, artists |-> <<<<"X", " ", "X", " ", "X", " ", "X">>>>]
ExistingOtherArtist == [name |-> <<"A", "a", " ", "B", "b", " ", "C", "c">>, artists |-> <<<<"X", " ", "X", " ", "X", " ", "X", " ", "X">>>>]
ExistingAaBbCd == [name |-> <<"A", "a", " ", "B", "b", " ", "C", "d">>, artists |-> <<<<"X", " ", "X", " ", "X", " ", "X">>>>]
ExistingThriller ==
  [name |-> <<"T", "h", "r", "i", "l", "l", "e", "r">>,
   artists |-> <<<<"M", "i", "c", "h", "a", "e", "l", " ", "J", "a", "c", "k", "s", "o", "n">>>>]
ExistingEmpty == [name |-> <<>>, artists |-> <<<<>>>>]
ExistingUnrelated == [name |-> <<"Z", "z">>, artists |-> <<<<"Q">>>>]

NewTracks == {NewAaBbCc, NewThriller, NewThrillerRemaster, NewEmpty, Null}
ExistingPool ==
  {ExistingAaBbCc, ExistingDeluxe, ExistingOtherArtist, ExistingAaBbCd, ExistingThriller,
   ExistingEmpty, ExistingUnrelated, Null}
ExistingLists == {ArrayOf(q) : q \in SeqsUpTo(ExistingPool, MaxExisting)} \cup {Null}

\* strings the similarity is studied on
SimAlphabet == {"a", "b", " "}
SimStrings == SeqsUpTo(SimAlphabet, MaxLen)

SimIdle ==
  /\ simPc = "idle" /\ simCall = Null /\ simResult = Zero

CalculateStringSimilarity(str1, str2) ==
  /\ simPc = "idle"
  /\ simCall' = [str1 |-> str1, str2 |-> str2]
  /\ simResult' = calculateStringSimilarity(str1, str2)
  /\ simPc' = "returned"
  /\ UNCHANGED exceptSim

DupIdle ==
  /\ dupPc = "idle" /\ dupCall = Null /\ dupVerdict = Null /\ dupConsulted = 0

IsTrackAlreadyInPlaylist(newTrack, existingTracks) ==
  /\ dupPc = "idle"
  /\ dupCall' = [newTrack |-> newTrack, existingTracks |-> existingTracks]
  /\ LET returned == isTrackAlreadyInPlaylist(newTrack, existingTracks)
     IN dupVerdict' = returned.verdict /\ dupConsulted' = returned.consulted
  /\ dupPc' = "returned"
  /\ UNCHANGED exceptDup

(***************************************************************************)
(* Specifications                                                          *)
(***************************************************************************)
SelectNext ==
  \/ \E trackInfo \in {TrackInfo(t) : t \in SelectTracks} : SearchTrack(trackInfo)
  \/ \E items \in ItemLists : SearchResolved(items)
  \/ \E err \in SearchErrors : SearchRateLimited(err)
  \/ DelayElapsed
  \/ \E err \in SearchErrors : SearchFailed(err)

\* one searchTrack call against every behaviour of the search collaborator
SelectInit == SelIdle /\ RunIdle /\ DupIdle /\ SimIdle /\ NormIdle /\ FilterIdle /\ ListIdle /\ NormalizeIdle
SelectSpec == SelectInit /\ [][SelectNext]_vars

RunNext ==
  \/ LoadSearchCache
  \/ \E n \in 1..batchSize : SearchSettled(n)
  \/ BatchSettled
  \/ BatchDelayElapsed
  \/ SaveSearchCache
  \/ \E touched \in BOOLEAN, n \in 0..(MaxTracks + 2) : SaveSearchCacheFails(touched, n)
  \/ \E n \in 0..(MaxTracks + 2) : CrashDuringSave(n)
  \/ NewRun

\* invocations of main on one playlist, sharing the cache file
RunInit ==
  /\ SelIdle /\ DupIdle /\ SimIdle /\ NormIdle /\ FilterIdle /\ ListIdle /\ NormalizeIdle
  /\ runPc = "start" /\ run = 1
  /\ tracks \in Playlists
  /\ fileStore \in InitialFiles
  /\ everCached = Remember({}, fileStore, 1)
  /\ loaded = EmptyCache /\ searchCache = EmptyCache /\ tracksToSearch = <<>>
  /\ cachedResults = <<>> /\ i = 0 /\ batchPromises = <<>>
  /\ newSearchResults = <<>> /\ allTrackResults = <<>> /\ searchLog = {}
  /\ searchResults = <<>>
  /\ playlistTracks \in ExistingPlaylists
  /\ Len(tracks) > MaxRerunTracks => playlistTracks = <<>>
  /\ newTracksToAdd = <<>> /\ newTrackUris = <<>>

Spec == RunInit /\ [][RunNext]_vars

DupNext ==
  \E newTrack \in NewTracks, existingTracks \in ExistingLists :
    IsTrackAlreadyInPlaylist(newTrack, existingTracks)

\* one isTrackAlreadyInPlaylist call on every pooled candidate and collection
DupInit == SelIdle /\ RunIdle /\ DupIdle /\ SimIdle /\ NormIdle /\ FilterIdle /\ ListIdle /\ NormalizeIdle
DupSpec == DupInit /\ [][DupNext]_vars

SimNext ==
  \E str1 \in SimStrings, str2 \in SimStrings : CalculateStringSimilarity(str1, str2)

\* one calculateStringSimilarity call on every pair of strings
SimInit == SelIdle /\ RunIdle /\ DupIdle /\ SimIdle /\ NormIdle /\ FilterIdle /\ ListIdle /\ NormalizeIdle
SimSpec == SimInit /\ [][SimNext]_vars

FilterNext ==
  \E songs \in FilterBatches, options \in FilterOptions : FilterSongs(songs, options)

\* one filterSongs call on every pooled batch and options object
FilterInit == SelIdle /\ RunIdle /\ DupIdle /\ SimIdle /\ NormIdle /\ FilterIdle /\ ListIdle /\ NormalizeIdle
FilterSpec == FilterInit /\ [][FilterNext]_vars

\* the pages the collaborator answers with: items and reported total
MaxFetched == 3
MaxTotal == 3
Pages == {<<>>, <<1>>, <<2, 150>>, <<NullTrackItem>>}
Totals == {TotalNull, TotalUndefined} \cup {TotalOf(n) : n \in 0..MaxTotal}

\* the trackUris arguments: 1..n, a list naming a URI twice, a short list
MaxUris == 201
UpTo(n) == [k \in 1..n |-> k]
TrackUriLists ==
  {UpTo(n) : n \in {0, 1, addBatchSize, addBatchSize + 1, MaxUris}} \cup {<<7, 7>>, <<150, 2, 7>>}

ListNext ==
  \/ FetchAllUserPlaylists
  \/ FetchAllPlaylistTrackUris
  \/ \E trackUris \in TrackUriLists : AddTracksToPlaylist(trackUris)
  \/ PageRequest
  \/ \E items \in Pages, reportedTotal \in Totals :
       Len(fetched) + Len(items) <= MaxFetched /\ PageResponse(items, reportedTotal)
  \/ PageRejected("ECONNRESET")
  \/ AddResolved
  \/ AddRejected

\* one call of playlist.js against every sequence of collaborator responses
ListInit == SelIdle /\ RunIdle /\ DupIdle /\ SimIdle /\ NormIdle /\ FilterIdle /\ ListIdle /\ NormalizeIdle
ListSpec == ListInit /\ [][ListNext]_vars
\* the collaborator answers every request and the function runs on
ListFairSpec == ListSpec /\ WF_vars(ListNext)

NormNext ==
  \/ \E normalized \in NormalizedRecords : ValidateAndScore(normalized)
  \/ CreateFallbackNormalization

\* one SongNormalizer instance normalizing one song after another
NormInit == SelIdle /\ RunIdle /\ DupIdle /\ SimIdle /\ NormIdle /\ FilterIdle /\ ListIdle /\ NormalizeIdle
NormSpec == NormInit /\ [][NormNext]_vars

NormalizeNext == \E raw \in RawSongs : NormalizeSong(raw)

\* one SongNormalizer instance normalizing one raw song after another
NormalizeInit ==
  SelIdle /\ RunIdle /\ DupIdle /\ SimIdle /\ NormIdle /\ FilterIdle /\ ListIdle /\ NormalizeIdle
NormalizeSpec == NormalizeInit /\ [][NormalizeNext]_vars

(***************************************************************************)
(* Properties of the candidate match selector                              *)
(***************************************************************************)
Settled == selPc \in {"returned", "threw"}

\* position of a strategy in the documented order
StrategyPosition(name) ==
  CASE name = "track+artist (exact)" -> 1
    [] name = "track+artist (loose)" -> 2
    [] name = "track-only" -> 3
    [] name = "artist-only" -> 4

\* the greatest confidence among the items of a response
BestConfidence(s, items) ==
  IF items = <<>> THEN Zero
  ELSE ConfidenceMemo[s][items[CHOOSE p \in 1..Len(items) :
         \A q \in 1..Len(items) :
           ~RatGt(ConfidenceMemo[s][items[q]], ConfidenceMemo[s][items[p]])]]

RespondedItems == "items" \in DOMAIN lastResponse
RespondedError == "error" \in DOMAIN lastResponse
ResponseSucceeds ==
  RespondedItems /\ RatGt(BestConfidence(song, lastResponse.items), Half)

LastCall == calls[Len(calls)]
\* the search call issued right after the one lastResponse answers
FollowsResponse(strategyPos, n) ==
  /\ Len(calls) >= 2
  /\ calls[Len(calls) - 1] = lastResponse.call
  /\ StrategyPosition(LastCall.strategy) = strategyPos
  /\ LastCall.attempt = n
  /\ selPc = "awaitSearch"

\* C1: the strategies are tried in the order exact, loose, track-only,
\* artist-only; the first strategy whose best candidate scores above 0.5
\* gives the result and no search call is issued after it; a strategy that
\* answers with no candidates or a best score of at most 0.5 is followed by
\* the next strategy
C1_FirstSuccessInFixedOrder ==
  /\ calls # <<>> => StrategyPosition(calls[1].strategy) = 1 /\ calls[1].attempt = 0
  /\ \A p \in 1..(Len(calls) - 1) :
       \/ /\ calls[p + 1].strategy = calls[p].strategy
          /\ calls[p + 1].attempt = calls[p].attempt + 1
       \/ /\ StrategyPosition(calls[p + 1].strategy) = StrategyPosition(calls[p].strategy) + 1
          /\ calls[p + 1].attempt = 0
  /\ \A p \in 1..Len(calls) : calls[p].query = getQuery(calls[p].strategy, song)
  /\ ResponseSucceeds =>
       /\ Settled
       /\ LastCall = lastResponse.call
       /\ result.strategy = lastResponse.call.strategy
       /\ result.confidence = BestConfidence(song, lastResponse.items)
  /\ (RespondedItems /\ ~ResponseSucceeds) =>
       IF StrategyPosition(lastResponse.call.strategy) < 4
       THEN FollowsResponse(StrategyPosition(lastResponse.call.strategy) + 1, 0)
       ELSE selPc = "returned" /\ LastCall = lastResponse.call /\ result.match = Null

\* a match found by the third strategy after the first two fell through
C1_Witness ==
  /\ selPc = "returned"
  /\ ResponseSucceeds
  /\ result.strategy = "track-only"
  /\ Len(calls) = 3

\* a rate-limited call is retried for the same strategy at most 3 times;
\* after the third retry is rate-limited too the strategy is given up and
\* the next one is tried (or the selection ends unmatched)
RetryCeiling ==
  /\ \A p \in 1..Len(calls) : calls[p].attempt <= 3
  /\ \A name \in {calls[p].strategy : p \in 1..Len(calls)} :
       Cardinality({p \in 1..Len(calls) : calls[p].strategy = name}) <= 4
  /\ (RespondedError /\ lastResponse.error.statusCode = 429 /\ selPc # "awaitDelay") =>
       IF lastResponse.call.attempt < 3
       THEN /\ selPc = "awaitSearch"
            /\ LastCall.strategy = lastResponse.call.strategy
            /\ LastCall.attempt = lastResponse.call.attempt + 1
       ELSE IF StrategyPosition(lastResponse.call.strategy) < 4
       THEN FollowsResponse(StrategyPosition(lastResponse.call.strategy) + 1, 0)
       ELSE selPc = "returned" /\ result.match = Null /\ ret = Null

\* progress measure of a selection: it is at most 100
SelectionRank ==
  IF Settled THEN 100
  ELSE IF selPc = "idle" THEN 0
  ELSE 8 * strategyIdx + 2 * attempt + (IF selPc = "awaitDelay" THEN 1 ELSE 0)

\* C2: on a 429 the same strategy is retried, never more than 3 times; then
\* the strategy is given up and the selector moves on; every step of a
\* selection raises its bounded progress measure, so the selection ends
C2_BoundedRetriesTerminate ==
  /\ []RetryCeiling
  /\ [][SelectionRank' > SelectionRank]_selVars

\* the fourth rate-limited call of the first strategy made the selector
\* move on to the second strategy
C2_Witness ==
  /\ RespondedError /\ lastResponse.error.statusCode = 429
  /\ lastResponse.call.attempt = 3
  /\ StrategyPosition(lastResponse.call.strategy) = 1
  /\ selPc = "awaitSearch"
  /\ Len(calls) = 5
  /\ StrategyPosition(LastCall.strategy) = 2

\* C3: an error other than 429 ends the strategy at once: no sleep and no
\* further call for that strategy, nothing is thrown to the caller, and the
\* next strategy is tried (after the last strategy the track is unmatched)
C3_OtherErrorAbortsStrategy ==
  (RespondedError /\ lastResponse.error.statusCode # 429) =>
    /\ selPc \notin {"awaitDelay", "threw"}
    /\ ~IsThrown(ret)
    /\ IF StrategyPosition(lastResponse.call.strategy) < 4
       THEN FollowsResponse(StrategyPosition(lastResponse.call.strategy) + 1, 0)
       ELSE /\ selPc = "returned" /\ LastCall = lastResponse.call
            /\ result.match = Null /\ ret = Null

\* a server error on the first call was followed by the second strategy
C3_Witness ==
  /\ RespondedError /\ lastResponse.error.statusCode = 500
  /\ StrategyPosition(lastResponse.call.strategy) = 1
  /\ lastResponse.call.attempt = 0
  /\ Len(calls) = 2
  /\ StrategyPosition(LastCall.strategy) = 2

\* C4: a returned candidate always comes with confidence above 0.5 and a
\* strategy name; in every other case the result is exactly candidate null,
\* confidence 0, strategy null (and searchTrack returns null)
C4_MatchedOrExactlyUnmatched ==
  Settled =>
    /\ result.song = song
    /\ IF result.match # Null
       THEN /\ RatGt(result.confidence, Half)
            /\ result.strategy \in {StrategyNames[p] : p \in 1..Len(StrategyNames)}
            /\ ResponseSucceeds
       ELSE /\ result.confidence = Zero
            /\ result.strategy = Null
            /\ ret = Null
    /\ ~ResponseSucceeds => result.match = Null
    /\ (ret # Null /\ ~IsThrown(ret)) =>
         RatGt(ret.confidence, Half) /\ ret.uri = result.match.uri

\* every strategy was tried and the last one answered with candidates, none
\* of which scored above 0.5
C4_Witness ==
  /\ selPc = "returned"
  /\ result.match = Null
  /\ RespondedItems /\ lastResponse.items # <<>>
  /\ StrategyPosition(lastResponse.call.strategy) = 4

(***************************************************************************)
(* Properties of the cache and of batch matching                           *)
(***************************************************************************)
\* the batch loop is over
SearchPhaseOver == runPc \in {"save", "done", "crashed"}

Positions == 1..Len(tracksToSearch)
Started == {e.index : e \in searchLog}
InFlight == Started \ DOMAIN searchResults
Group(p) == (p - 1) \div 10

\* the fingerprints of the pooled tracks, computed once
Fingerprint == [t \in TrackPool |-> generateTrackKey(t)]

\* the fingerprint of the p-th cache-miss track, computed as for the lookup
LookupKey(p) ==
  Fingerprint[[f \in DOMAIN tracksToSearch[p] \ {"cacheKey"} |-> tracksToSearch[p][f]]]

\* entry records the outcome o of a searchTrack call
Records(entry, o) ==
  IF IsThrown(o)
  THEN /\ DOMAIN entry = {"matched", "cachedAt", "error"}
       /\ entry.matched = FALSE
       /\ entry.error = o.message
  ELSE IF o = Null
  THEN /\ DOMAIN entry = {"matched", "cachedAt"}
       /\ entry.matched = FALSE
  ELSE /\ DOMAIN entry = {"matched", "cachedAt", "spotifyUri", "spotifyTrackInfo", "confidence"}
       /\ entry.matched = TRUE
       /\ entry.spotifyUri = o.uri
       /\ entry.spotifyTrackInfo = [name |-> o.name, artists |-> o.artists, album |-> o.album]
       /\ entry.confidence = o.confidence

IsHit(track) == Fingerprint[track] \in DOMAIN loaded

\* C5: a track whose fingerprint is a key of the loaded cache causes no
\* searchTrack call; its result is the track overlaid with the cache entry
\* (a match or a failure alike), flagged fromCache, in playlist order
C5_CacheHitShortCircuits ==
  runPc # "start" =>
    /\ \A p \in 1..Len(tracks) :
         IsHit(tracks[p]) => \A e \in searchLog : e.trackInfo # TrackInfo(tracks[p])
    /\ LET hits == SelectSeq(tracks, IsHit)
       IN /\ Len(cachedResults) = Len(hits)
          /\ \A p \in 1..Len(hits) :
               LET entry == loaded[Fingerprint[hits[p]]]
                   r == cachedResults[p]
               IN /\ DOMAIN r = DOMAIN hits[p] \cup DOMAIN entry \cup {"fromCache"}
                  /\ \A f \in DOMAIN entry : r[f] = entry[f]
                  /\ \A f \in DOMAIN hits[p] \ DOMAIN entry : r[f] = hits[p][f]
                  /\ r.fromCache = TRUE

\* a run that took a track from a cached failure and searched another one
C5_Witness ==
  /\ runPc = "done"
  /\ \E p \in 1..Len(cachedResults) :
       ~cachedResults[p].matched /\ "error" \in DOMAIN cachedResults[p]
  /\ DOMAIN searchResults # {}

\* C6: a search that settles stores, under the fingerprint its track was
\* looked up with, an entry for its outcome: matched (URI and metadata), not
\* found (matched false), thrown (matched false and the error message);
\* after the search phase every cache-miss track has such an entry under
\* its fingerprint, its own one when no other searched track shares it
C6_EveryOutcomeCached ==
  /\ [](SearchPhaseOver =>
          \A p \in Positions :
            LET key == tracksToSearch[p].cacheKey
            IN /\ key = LookupKey(p)
               /\ key \notin DOMAIN loaded
               /\ p \in DOMAIN searchResults
               /\ key \in DOMAIN searchCache
               /\ \E q \in Positions :
                    /\ tracksToSearch[q].cacheKey = key
                    /\ Records(searchCache[key], searchResults[q])
               /\ (\A q \in Positions \ {p} : tracksToSearch[q].cacheKey # key) =>
                    Records(searchCache[key], searchResults[p]))
  /\ [][\A p \in DOMAIN searchResults' \ DOMAIN searchResults :
          /\ tracksToSearch[p].cacheKey = LookupKey(p)
          /\ LookupKey(p) \in DOMAIN searchCache'
          /\ Records(searchCache'[LookupKey(p)], searchResults'[p])]_vars

\* the search phase ended with a matched, a not-found and a thrown outcome
C6_Witness ==
  /\ SearchPhaseOver
  /\ \E p, q, r \in Positions :
       /\ IsThrown(searchResults[p]) /\ "error" \in DOMAIN searchCache[LookupKey(p)]
       /\ searchResults[q] = Null /\ ~searchCache[LookupKey(q)].matched
       /\ ~IsThrown(searchResults[r]) /\ searchResults[r] # Null
       /\ searchCache[LookupKey(r)].matched

\* C7: after a crash during saveSearchCache the file still loads as a
\* mapping holding every entry that was cached before the save started
C7_CrashKeepsCachedEntries ==
  runPc = "crashed" =>
    \A k \in DOMAIN loaded :
      /\ k \in DOMAIN loadSearchCache(fileStore)
      /\ loadSearchCache(fileStore)[k] = loaded[k]

\* C8: the cache-miss tracks are searched in consecutive groups of at most
\* 10; the searches of a group start together; no search of a group starts
\* before every search of the groups before it has settled; at most 10
\* searches are in flight
C8_BatchesOfTen ==
  /\ Cardinality(InFlight) <= 10
  /\ Len(batchPromises) <= 10
  /\ Started \subseteq Positions
  /\ \A e \in searchLog : e.trackInfo = TrackInfo(tracksToSearch[e.index])
  /\ \A p \in Started : \A q \in Positions :
       /\ Group(q) = Group(p) => q \in Started
       /\ Group(q) < Group(p) => q \in Started /\ q \notin InFlight
  /\ \A p, q \in InFlight : Group(p) = Group(q)
  /\ SearchPhaseOver => Started = Positions

\* the second group is in flight after a first group of 10 settled
C8_Witness ==
  /\ runPc = "searching"
  /\ i = 10
  /\ InFlight # {}
  /\ Cardinality(DOMAIN searchResults) = 10

\* C9: a search that throws gives an unmatched result for its own track and
\* nothing else changes: every cache-miss track is searched and the search
\* phase yields one result per cache-miss track, in the order of the list,
\* each made of its track and its own search's outcome
C9_ThrowIsUnmatchedForThatTrack ==
  SearchPhaseOver =>
    /\ Len(newSearchResults) = Len(tracksToSearch)
    /\ DOMAIN searchResults = Positions
    /\ \A p \in Positions :
         LET r == newSearchResults[p]
             o == searchResults[p]
         IN /\ \A f \in DOMAIN tracksToSearch[p] :
                 f \in DOMAIN r /\ r[f] = tracksToSearch[p][f]
            /\ r.matched = (~IsThrown(o) /\ o # Null)
            /\ IF r.matched
               THEN r.spotifyUri = o.uri /\ r.confidence = o.confidence
               ELSE DOMAIN r = DOMAIN tracksToSearch[p] \cup {"matched"}
    /\ runPc = "done" => allTrackResults = cachedResults \o newSearchResults

\* a search of the first group threw, another of that group matched, and a
\* later group was searched
C9_Witness ==
  /\ SearchPhaseOver
  /\ \E p, q, r \in Positions :
       /\ Group(p) = 0 /\ Group(q) = 0 /\ Group(r) = 1
       /\ IsThrown(searchResults[p])
       /\ newSearchResults[q].matched
       /\ r \in DOMAIN searchResults

\* the text generateTrackKey hashes for the p-th cache-miss track
Combined(p) ==
  LET t == tracksToSearch[p]
  IN Trim(ToLowerCase(OrEmpty(FirstTruthy(t, <<"title", "name", "Name">>)))) \o <<"|">>
     \o Trim(ToLowerCase(OrEmpty(FirstTruthy(t, <<"artist", "Artist">>)))) \o <<"|">>
     \o Trim(ToLowerCase(OrEmpty(FirstTruthy(t, <<"album", "Album">>))))

\* C10 as claimed: no two tracks sent to the search phase share a cache key
C10_DistinctFingerprints ==
  \A p, q \in Positions : p # q => tracksToSearch[p].cacheKey # tracksToSearch[q].cacheKey

\* C10 as amended: the cache key of a track sent to the search phase is the
\* hash of its lowercased, trimmed title|artist|album text, so two such
\* tracks share a key exactly when these texts are equal; each search
\* writes the key of its own track and no other key, replacing whatever
\* entry the key held
C10_LastWriterWinsPerFingerprint ==
  /\ [](\A p \in Positions : tracksToSearch[p].cacheKey = md5(Combined(p)))
  /\ [][\A p \in DOMAIN searchResults' \ DOMAIN searchResults :
          LET key == tracksToSearch[p].cacheKey
          IN /\ DOMAIN searchCache' = DOMAIN searchCache \cup {key}
             /\ Records(searchCache'[key], searchResults'[p])
             /\ \A k \in DOMAIN searchCache \ {key} : searchCache'[k] = searchCache[k]]_vars

\* two searched tracks share a key, their searches ended differently, and
\* the key holds the entry of one of them only
C10_Witness ==
  \E p, q \in DOMAIN searchResults :
    /\ p # q
    /\ tracksToSearch[p].cacheKey = tracksToSearch[q].cacheKey
    /\ Records(searchCache[tracksToSearch[q].cacheKey], searchResults[q])
    /\ ~Records(searchCache[tracksToSearch[p].cacheKey], searchResults[p])

(***************************************************************************)
(* Claims about the duplicate detector                                     *)
(***************************************************************************)
DupReturned == dupPc = "returned"
ValidDupCall == DupReturned /\ dupCall.newTrack # Null /\ dupCall.existingTracks # Null
Existing == dupCall.existingTracks.array

\* the highest-priority tier under which an existing track matches a
\* candidate, "none" when no tier does
TierOf(candidate, existing) ==
  LET sim == calculateTrackSimilarity(candidate, existing)
  IN IF /\ createTrackSignature(candidate) = createTrackSignature(existing)
        /\ Len(createTrackSignature(candidate)) > 6
     THEN "exact_signature"
     ELSE IF /\ createCoreTrackSignature(candidate) = createCoreTrackSignature(existing)
             /\ Len(createCoreTrackSignature(candidate)) > 6
     THEN "core_signature"
     ELSE IF RatGt(sim.overall, Rat(90, 100)) THEN "high_similarity"
     ELSE IF RatGt(sim.overall, Rat(75, 100)) /\ RatGt(sim.artist, Rat(95, 100))
     THEN "medium_similarity_exact_artist"
     ELSE "none"

\* positions of the existing tracks that match the candidate under some tier
Hits ==
  {k \in DOMAIN Existing :
     Existing[k] # Null /\ TierOf(dupCall.newTrack, Existing[k]) # "none"}
FirstHit == CHOOSE k \in Hits : \A h \in Hits : k <= h

\* C12: the existing collection is walked in order; the first existing track
\* that matches under any tier decides the verdict, with the highest-priority
\* tier it matches under (exact_signature, core_signature, high_similarity,
\* medium_similarity_exact_artist), and no later track is consulted; when no
\* track matches, the whole collection is walked and the verdict is "not a
\* duplicate".
C12_FirstMatchingTrackWins ==
  ValidDupCall =>
    IF Hits = {}
    THEN dupVerdict = NotDuplicate /\ dupConsulted = Len(Existing)
    ELSE /\ dupVerdict.isDuplicate
         /\ dupVerdict.method = TierOf(dupCall.newTrack, Existing[FirstHit])
         /\ dupVerdict.existingTrack = Existing[FirstHit]
         /\ dupConsulted = FirstHit

\* a later track would match under a higher tier, yet the earlier one decides
C12_Witness ==
  /\ ValidDupCall
  /\ Len(Existing) = 2
  /\ Hits = {1, 2}
  /\ TierOf(dupCall.newTrack, Existing[1]) = "medium_similarity_exact_artist"
  /\ TierOf(dupCall.newTrack, Existing[2]) = "exact_signature"
  /\ dupVerdict.method = "medium_similarity_exact_artist"
  /\ dupConsulted = 1


\* C13 as stated: "Thriller (2003 Remaster)" by Michael Jackson against an
\* existing "Thriller" by Michael Jackson is a duplicate by core_signature
\* with confidence 0.95.
C13_ThrillerRemasterIsCoreDuplicate ==
  (/\ DupReturned
   /\ dupCall.newTrack = NewThrillerRemaster
   /\ dupCall.existingTracks = ArrayOf(<<ExistingThriller>>))
  => /\ dupVerdict.isDuplicate
     /\ dupVerdict.method = "core_signature"
     /\ dupVerdict.confidence = Rat(95, 100)

\* the candidate and the existing track have the same search-normalized
\* title and artist, and their signature is longer than six characters
ExactMatch(candidate, existing) ==
  LET c == TC_normalizeSong(candidate)
      e == TC_normalizeSong(existing)
  IN /\ c.searchTitle = e.searchTitle
     /\ c.searchArtist = e.searchArtist
     /\ Len(c.searchTitle) + Len(SignatureSeparator) + Len(c.searchArtist) > 6

ExactMatches ==
  {k \in DOMAIN Existing : Existing[k] # Null /\ ExactMatch(dupCall.newTrack, Existing[k])}

\* C14 as stated: whenever some existing track has the candidate's
\* search-normalized title and artist and the signature is longer than six
\* characters, the verdict is a duplicate by exact_signature with confidence 1.
C14_ExactMatchAlwaysExactSignature ==
  (ValidDupCall /\ ExactMatches # {})
  => /\ dupVerdict.isDuplicate
     /\ dupVerdict.method = "exact_signature"
     /\ dupVerdict.confidence = One

\* C14, amended: such a candidate is always reported a duplicate, whatever the
\* albums; the verdict is exact_signature with confidence 1 for that existing
\* track when no earlier track of the collection matches under any tier.
C14_ExactMatchIsDuplicate ==
  ValidDupCall =>
    \A k \in ExactMatches :
      /\ dupVerdict.isDuplicate
      /\ (\A j \in 1..(k - 1) : j \notin Hits)
         => /\ dupVerdict.method = "exact_signature"
            /\ dupVerdict.confidence = One
            /\ dupVerdict.existingTrack = Existing[k]

\* an exact match on title and artist whose albums differ, found after a
\* track that does not match
C14_Witness ==
  /\ ValidDupCall
  /\ ExactMatches = {2}
  /\ Hits = {2}
  /\ TC_normalizeSong(dupCall.newTrack).searchAlbum
       # TC_normalizeSong(Existing[2]).searchAlbum
  /\ dupVerdict.method = "exact_signature"
  /\ dupVerdict.confidence = One

IsBlank(t) ==
  TC_normalizeSong(t).searchTitle = <<>> /\ TC_normalizeSong(t).searchArtist = <<>>

\* C15 as stated: a candidate whose title and artist are both empty is never
\* reported a duplicate of an existing track whose title and artist are both
\* empty, under any tier.
C15_BlankNeverDuplicatesBlank ==
  (ValidDupCall /\ IsBlank(dupCall.newTrack) /\ dupVerdict.isDuplicate)
  => ~IsBlank(dupVerdict.existingTrack)


(***************************************************************************)
(* Claims about the similarity engine                                      *)
(***************************************************************************)
\* C17: calculateStringSimilarity is symmetric: the value returned for
\* (str1, str2) is the value of the call with the arguments exchanged, empty
\* strings and strings of equal length included.
C17_SimilarityIsSymmetric ==
  simPc = "returned"
  => simResult = calculateStringSimilarity(simCall.str2, simCall.str1)

\* two different strings of different lengths that share a token, compared
C17_Witness ==
  /\ simPc = "returned"
  /\ Len(simCall.str1) < Len(simCall.str2)
  /\ Tokens(simCall.str1, <<>>) \cap Tokens(simCall.str2, <<>>) # {}
  /\ RatGt(simResult, Zero) /\ RatGt(One, simResult)


(***************************************************************************)
(* Claims about the selector's scoring                                     *)
(***************************************************************************)
\* the selection ended with a candidate
Matched == selPc \in {"returned", "threw"} /\ result # Pending /\ result.match # Null

CandidateArtists(candidate) ==
  JoinSpace([p \in 1..Len(candidate.artists) |-> normalize(candidate.artists[p].name)])

\* 0.7 * title similarity + 0.3 * artist similarity of a candidate, with the
\* similarity engine of the track comparison (0.6 Levenshtein + 0.4 Jaccard)
EngineScore(s, candidate) ==
  RatAdd(RatMul(Rat(7, 10),
                calculateStringSimilarity(normalize(s.title), normalize(candidate.name))),
         RatMul(Rat(3, 10),
                calculateStringSimilarity(normalize(s.artist), CandidateArtists(candidate))))

\* the same weighting over the Dice coefficient of the character bigrams
DiceScore(s, candidate) ==
  RatAdd(RatMul(Rat(7, 10), compareTwoStrings(normalize(s.title), normalize(candidate.name))),
         RatMul(Rat(3, 10), compareTwoStrings(normalize(s.artist), CandidateArtists(candidate))))

InputTrackOf(r) == [title |-> r.title, artist |-> r.artist, album |-> r.album]

\* sub can be obtained from full by deleting elements
RECURSIVE IsSubsequence(_, _)
IsSubsequence(sub, full) ==
  IF sub = <<>> THEN TRUE
  ELSE IF full = <<>> THEN FALSE
  ELSE IF Head(sub) = Head(full) THEN IsSubsequence(Tail(sub), Tail(full))
  ELSE IsSubsequence(sub, Tail(full))

\* C11 as stated: the URIs to add are listed in the relative order their
\* input tracks have in the playlist (the tracks of a playlist of the model
\* are pairwise different), also when one was served from the cache and
\* another was newly searched.
C11_UrisKeepInputOrder ==
  runPc = "done"
  => /\ IsSubsequence([k \in DOMAIN newTracksToAdd |-> InputTrackOf(newTracksToAdd[k])],
                      tracks)
     /\ newTrackUris = [k \in DOMAIN newTracksToAdd |-> newTracksToAdd[k].spotifyUri]


(***************************************************************************)
(* Claims about the quality score                                          *)
(***************************************************************************)
Scored == scored # Null /\ ~scored.fallback

\* C18 as stated: the quality a record gets depends on its normalized fields
\* only: it is the quality a new instance gives the record, whatever the
\* instance has scored before.
C18_ScoreIndependentOfHistory ==
  Scored => scored.quality = validateAndScore(scored.normalized, NoIndexes).quality

\* C19: the score of every record returned, scored or fallback, lies in
\* 0..100, and the confidence is high for a score of at least 85, medium
\* for 70 to 84 and low below 70.
C19_ScoreClampedConfidenceByScore ==
  scored # Null
  => /\ scored.quality.score \in 0..100
     /\ scored.quality.confidence =
          IF scored.quality.score >= 85 THEN "high"
          ELSE IF scored.quality.score >= 70 THEN "medium"
          ELSE "low"

\* a record whose bonuses carry it over 100 before the clamp
C19_Witness ==
  /\ Scored
  /\ scored.quality.issues = <<>>
  /\ scored.normalized.album # <<>> /\ scored.normalized.year # 0
  /\ scored.quality.score = 100
  /\ scored.quality.confidence = "high"

\* C20 as stated: a record without title and without artist has score 0 and
\* confidence low, whatever optional fields it has.
C20_NoTitleNoArtistScoresZero ==
  (Scored /\ scored.normalized.title = <<>> /\ scored.normalized.artist = <<>>)
  => scored.quality.score <= 0 /\ scored.quality.confidence = "low"

(***************************************************************************)
(* Properties of the runs that share one cache file                        *)
(***************************************************************************)
\* the cache file holds an entry under the fingerprint of track t
Persisted(t) == Fingerprint[t] \in DOMAIN loadSearchCache(fileStore)

\* this invocation has issued a searchTrack call for track t
SearchedFor(t) == \E e \in searchLog : e.trackInfo = TrackInfo(t)

\* C27: once the cache file holds an entry for a track, no later invocation
\* issues a search call for that track
C27_CachedTrackNeverSearchedAgain ==
  \A t \in SpecialTracks : \A e \in everCached :
    (e.key = Fingerprint[t] /\ SearchedFor(t)) => run <= e.run

\* C28: the URI list handed to addTracksToPlaylist holds no URI twice
C28_NoUriTwice ==
  \A p, q \in DOMAIN newTrackUris : p # q => newTrackUris[p] # newTrackUris[q]

(***************************************************************************)
(* Properties of the song filter                                           *)
(***************************************************************************)
FilterReturned == filterPc = "returned"

\* the options of the call, defaults filled in
MinQualityScore == OptionOr(filterCall.options, "minQualityScore", 50)
AllowLowConfidence == OptionOr(filterCall.options, "allowLowConfidence", FALSE)
RemoveInvalid == OptionOr(filterCall.options, "removeInvalid", TRUE)

\* the quality a song carries
QualityScore(x) == IF x.quality = Null THEN 0 ELSE x.quality.score
IsLowConfidence(x) == x.quality # Null /\ x.quality.confidence = "low"
MissingRequiredField(x) == Trim(x.title) = <<>> \/ Trim(x.artist) = <<>>

InValid(x) == \E p \in DOMAIN filterResults.valid : filterResults.valid[p] = x
InInvalid(x) == \E p \in DOMAIN filterResults.invalid : filterResults.invalid[p].song = x

\* the rejection rule of the specification
RejectedByRule(x) ==
  \/ RemoveInvalid /\ MissingRequiredField(x)
  \/ QualityScore(x) < MinQualityScore
  \/ IsLowConfidence(x) /\ ~AllowLowConfidence

\* C21: filterSongs rejects a song exactly when removeInvalid holds and a
\* required field is missing, or its score is below minQualityScore, or its
\* confidence is low and allowLowConfidence is false; every other song is
\* placed in valid
C21_RejectedExactlyByRule ==
  FilterReturned =>
    \A k \in DOMAIN filterCall.songs :
      /\ InInvalid(filterCall.songs[k]) <=> RejectedByRule(filterCall.songs[k])
      /\ InValid(filterCall.songs[k]) <=> ~RejectedByRule(filterCall.songs[k])

\* C22: no song of valid has a score below minQualityScore, and when
\* allowLowConfidence is false no song of valid has low confidence; valid
\* holds songs of the batch only
C22_ValidMeetsMinimum ==
  FilterReturned =>
    \A p \in DOMAIN filterResults.valid :
      /\ QualityScore(filterResults.valid[p]) >= MinQualityScore
      /\ ~AllowLowConfidence => ~IsLowConfidence(filterResults.valid[p])
      /\ \E k \in DOMAIN filterCall.songs : filterCall.songs[k] = filterResults.valid[p]

\* the documented call (minQualityScore 60, removeInvalid true) kept one
\* song of a batch and rejected another one whose score is 55
C22_Witness ==
  /\ FilterReturned
  /\ MinQualityScore = 60 /\ RemoveInvalid /\ "removeInvalid" \in DOMAIN filterCall.options
  /\ AllowLowConfidence
  /\ filterResults.valid # <<>>
  /\ \E k \in DOMAIN filterCall.songs :
       /\ QualityScore(filterCall.songs[k]) = 55
       /\ ~MissingRequiredField(filterCall.songs[k])
       /\ InInvalid(filterCall.songs[k])

(***************************************************************************)
(* Properties of playlist paging and additions                             *)
(***************************************************************************)
PagingCall ==
  listCall # Null /\ listCall.fn \in {"fetchAllUserPlaylists", "fetchAllPlaylistTrackUris"}
ListSettled == listPc \in {"returned", "threw"}

\* C29: a call of fetchAllUserPlaylists or fetchAllPlaylistTrackUris returns or
\* throws whatever pages the collaborator answers with, also when a page is
\* empty while the reported total exceeds the number of items fetched
C29_PagingTerminates == PagingCall ~> ListSettled

AddCall == listCall # Null /\ listCall.fn = "addTracksToPlaylist"
RECURSIVE ResolvedUris(_)
ResolvedUris(requests) ==
  IF requests = <<>> THEN 0
  ELSE (IF Head(requests).outcome = "resolved" THEN Len(Head(requests).batch) ELSE 0)
       + ResolvedUris(Tail(requests))

\* C30: every request of addTracksToPlaylist carries at most 100 URIs, each
\* an argument URI that is not among the URIs fetched from the playlist; no
\* request follows a rejected one; the number returned is the total number
\* of URIs of the resolved requests
C30_AddsNewUrisInBatches ==
  /\ \A p \in DOMAIN sent :
       /\ Len(sent[p].batch) <= 100
       /\ \A q \in DOMAIN sent[p].batch :
            /\ Includes(listCall.trackUris, sent[p].batch[q])
            /\ ~Includes(existingUris, sent[p].batch[q])
       /\ p < Len(sent) => sent[p].outcome = "resolved"
  /\ (AddCall /\ listPc = "returned") => listReturn = Returned(ResolvedUris(sent))

\* a call that left out a URI found in the playlist, had a full request
\* resolved and the next one rejected
C30_Witness ==
  /\ AddCall /\ listPc = "returned"
  /\ existingUris # <<>>
  /\ Len(urisToAdd) < Len(listCall.trackUris)
  /\ Len(sent) = 2
  /\ Len(sent[1].batch) = 100 /\ sent[1].outcome = "resolved"
  /\ sent[2].outcome = "rejected"
  /\ listReturn = Returned(100)

(***************************************************************************)
(* Properties of normalizeSong                                             *)
(***************************************************************************)
Normalized == normalizeCall # Null
IsFallback == normalizeReturn.quality.issues = <<"normalization_failed">>
Absent(value) == value = Undefined \/ value = <<>>

\* C23: normalizeSong returns a record for every raw song and never throws;
\* when a step inside fails it returns the fallback record: the song's
\* title and artist, "Unknown Title" / "Unknown Artist" when absent,
\* confidence low and the single issue normalization_failed
C23_NormalizeIsTotal ==
  Normalized =>
    /\ ~IsThrown(normalizeReturn)
    /\ IsThrown(NormalizedFieldsOf(normalizeCall)) =>
         /\ normalizeReturn.title =
              (IF Absent(normalizeCall.title) THEN kUnknownTitle ELSE normalizeCall.title)
         /\ normalizeReturn.artist =
              (IF Absent(normalizeCall.artist) THEN kUnknownArtist ELSE normalizeCall.artist)
         /\ normalizeReturn.quality.confidence = "low"
         /\ normalizeReturn.quality.issues = <<"normalization_failed">>

\* a step failed for a song that has a title and no artist
C23_Witness ==
  /\ Normalized
  /\ IsThrown(NormalizedFieldsOf(normalizeCall))
  /\ normalizeCall.artist = Undefined
  /\ normalizeReturn.artist = kUnknownArtist
  /\ normalizeReturn.title = normalizeCall.title
  /\ IsFallback

\* titles of the form base (qualifier) whose qualifier is a version clause
VersionedTitles == {[base |-> <<"T", "r", "a", "c", "k">>, qualifier |-> <<"L", "i", "v", "e">>]}
TitleOf(v) == v.base \o <<" ", "(">> \o v.qualifier \o <<")">>

\* C24: a title with a parenthesised version qualifier is normalized without
\* the fallback, the qualifier becomes version, the title loses it and the
\* flags follow from it: "Track (Live)" gives version "Live", isLive true
\* and title "Track"
C24_VersionQualifierExtracted ==
  Normalized =>
    \A v \in VersionedTitles :
      normalizeCall.title = TitleOf(v) =>
        /\ ~IsFallback
        /\ normalizeReturn.version = VersionText(v.qualifier)
        /\ normalizeReturn.isLive = IsLive(v.qualifier)
        /\ normalizeReturn.title = v.base

\* C25: the title "Song (feat. Artist B)" of the artist "Artist A" is
\* normalized to the title "Song" and the features ["Artist B"]
C25_FeatureClauseExtracted ==
  (Normalized /\ normalizeCall.title = <<"S", "o", "n", "g", " ", "(", "f", "e", "a", "t", ".", " ", "A", "r", "t", "i", "s", "t", " ", "B", ")">> /\ normalizeCall.artist = <<"A", "r", "t", "i", "s", "t", " ", "A">>) =>
    /\ normalizeReturn.title = <<"S", "o", "n", "g">>
    /\ normalizeReturn.features = <<<<"A", "r", "t", "i", "s", "t", " ", "B">>>>

\* the value the specification keeps: the number when it lies in the range
KeptWithin(value, lowest, highest) ==
  IF value # Null /\ value.number >= lowest /\ value.number <= highest THEN value ELSE Null

\* C26: a normalized record keeps year exactly when it lies in
\* [1900, current year], duration in [5, 1200] and playCount in [0, 100000]
\* (0 included); every other value becomes null
C26_NumbersKeptExactlyInRange ==
  (Normalized /\ ~IsFallback) =>
    /\ normalizeReturn.year = KeptWithin(normalizeCall.year, 1900, currentYear)
    /\ normalizeReturn.duration = KeptWithin(normalizeCall.duration, 5, 1200)
    /\ normalizeReturn.playCount = KeptWithin(normalizeCall.playCount, 0, 100000)

====
